---- MODULE Spec2Model ----
(***************************************************************************)
(* Model of the issue tracker's submission pipeline.                       *)
(*                                                                         *)
(*   src/src/lib/submissions.ts   generateSubmissionId, createSubmission,  *)
(*                                createLoanIssueSubmission                *)
(*   src/functions/src/index.ts   uploadToDrive, purgeOldFiles             *)
(*   src/src/pages/LoanIssueFormPage.tsx   decision tree, form, submit     *)
(*   src/src/contexts/SimpleAuthContext.tsx, components/ProtectedRoute.tsx *)
(*   src/unnamed/part_006         resumableUpload                          *)
(*                                                                         *)
(* Every await of the async functions is a point where other clients and   *)
(* the scheduled purge may run, so each awaited call is one action.        *)
(* Strings are sequences of one-character strings.                         *)
(***************************************************************************)
EXTENDS Integers, Sequences, FiniteSets, TLC

\* ------------------------------------------------------------------ bounds
NumClients == 2        \* independent browser sessions submitting forms
MaxCalls == 3          \* create calls started in one behaviour
MaxFiles == 2          \* attachments of one form
MaxAttempts == 2       \* transaction attempts before runTransaction rejects
TickDays == 15         \* granularity of the clock, in days
MaxTime == 16          \* last day of the clock
MaxSubmits == 2        \* submit attempts of one page
MaxReloads == 2        \* page reloads and new browser sessions
MaxUploads == 2        \* uploadToDrive requests of one behaviour
MaxPicked == 4         \* files picked or pasted on one page
NumRequests == 2       \* concurrent uploadToDrive requests
MaxSize == 7           \* largest file of resumableUpload, in units of 2.5 MiB
MaxPurges == 1         \* runs of purgeOldFiles in one behaviour
MaxPurgeCalls == 2     \* create calls started while the purge is scheduled

\* ------------------------------------------------------- program constants
PurgeAgeDays == 14     \* cutoffDate.setDate(cutoffDate.getDate() - 14)
PadWidth == 4          \* padStart(4, '0')

Clients == 1..NumClients

\* counter values found in the store when the behaviour starts: a counter
\* that was never incremented, and one about to grow past four digits
StartValues == {0, 9998}

\* numbers of attachments of the submitted forms
FileCounts == {0, MaxFiles}

VARIABLES
    counter,       \* counters/SUBMISSION_COUNTER: exists, value field, version
    submissions,   \* the submissions collection, a set of documents keyed by id
    now,           \* server clock, in days
    client,        \* per client: position and locals of its create call
    ncalls,        \* number of create calls started
    returned,      \* history: the allocations, in commit order
    gaps,          \* history: integers allocated to calls whose upload failed
    allocFailed,   \* history: some allocation has failed
    purged,        \* history: ids of the documents deleted by the purge
    initialValue,  \* history: the counter value the behaviour started from
    fmt,           \* the formatter taken alone: two integers and their ids
    cls,           \* the decision tree taken alone: form data and results
    page,          \* LoanIssueFormPage: its React state and its submit calls
    auth,          \* SimpleAuthProvider: its React state and localStorage
    drive,         \* Google Drive folders and the uploadToDrive requests
    upload         \* one resumableUpload call: its locals and the last response

vars == <<counter, submissions, now, client, ncalls, returned, gaps, allocFailed,
          purged, initialValue, fmt, cls, page, auth, drive, upload>>

\* ------------------------------------------------------------ ID formatting
DigitChars == <<"0", "1", "2", "3", "4", "5", "6", "7", "8", "9">>

RECURSIVE DecimalString(_)
\* String(nextValue) for a non-negative integer
DecimalString(n) ==
    IF n < 10 THEN <<DigitChars[n + 1]>>
    ELSE Append(DecimalString(n \div 10), DigitChars[(n % 10) + 1])

\* variant: a fixed-width field that keeps only the last width characters
PadStart_FixedWidth(s, width, ch) ==
    LET padded == [i \in 1..width |-> ch] \o s
    IN SubSeq(padded, Len(padded) - width + 1, Len(padded))

\* s.padStart(width, ch): pads on the left up to width, never truncates
PadStart(s, width, ch) ==
    IF Len(s) >= width THEN s
    ELSE [i \in 1..(width - Len(s)) |-> ch] \o s

\* `SUB-${String(nextValue).padStart(4, '0')}`
FormatId(n) == <<"S", "U", "B", "-">> \o PadStart(DecimalString(n), PadWidth, "0")

\* --------------------------------------------------------- the transaction
\* variant: a counter without a usable value is taken to hold 1
CurrentValue_DefaultOne(doc) ==
    IF doc.exists /\ doc.hasValue /\ doc.value # 0 THEN doc.value ELSE 1

\* currentValue = 0; if (counterDoc.exists()) currentValue = data().value || 0
CurrentValue(doc) ==
    IF doc.exists
    THEN IF doc.hasValue /\ doc.value # 0 THEN doc.value ELSE 0
    ELSE 0

\* variant: the increment skips a value
NextValue_SkipOne(currentValue) == currentValue + 2

\* nextValue = currentValue + 1
NextValue(currentValue) == currentValue + 1

\* variant: a plain read followed by a write, without isolation
CommitPrecondition_NoIsolation(snap, doc) == TRUE

\* runTransaction commits the buffered set only if the document read by
\* transaction.get has not been written since (optimistic concurrency)
CommitPrecondition(snap, doc) == snap = doc.version

NoId == << >>

\* the locals of a create call: files to upload, attempt number of the
\* transaction, version and nextValue of its last read, the id returned,
\* the attachments pushed, the upload requests sent and the id the last one
\* was tagged with, the documents written
IdleClient ==
    [pc |-> "idle", kind |-> "none", nfiles |-> 0, attempts |-> 0, snap |-> 0,
     next |-> 0, id |-> NoId, val |-> 0, attachments |-> << >>, sent |-> 0,
     tag |-> NoId, stage |-> "none", writes |-> 0]

\* version counts the writes of the counter document
AbsentCounter == [exists |-> FALSE, hasValue |-> FALSE, value |-> 0, version |-> 0]

IdleFormat == [pc |-> "idle", k1 |-> 0, k2 |-> 0, id1 |-> NoId, id2 |-> NoId]

\* a field the form data does not carry; no string has an element of more
\* than one character, so it differs from every string
Undefined == <<"undefined">>

NoForm ==
    [issueType |-> << >>, subIssue |-> Undefined, notes |-> Undefined,
     actionRequested |-> << >>]

NoResult == [recommendedAction |-> << >>, reason |-> << >>, nextSteps |-> << >>]

IdleClassifier ==
    [pc |-> "idle", formData |-> NoForm, result |-> NoResult, formData2 |-> NoForm,
     result2 |-> NoResult, log |-> << >>, heap |-> << >>]

\* the form as useState creates it: every field '' and no attachment.
\* required stands for entity, opportunityId, lsqUrl, date and name
\* together: TRUE when each of them passes its validation
InitialFormData ==
    [required |-> FALSE, issueType |-> << >>, subIssue |-> << >>,
     actionRequested |-> << >>, notes |-> << >>, attachmentFiles |-> << >>]

\* useState(null) of success
NoSuccess == [submissionId |-> NoId, decisionResult |-> NoResult]

\* useState<UploadProgress | null>(null); a progress that is reported has
\* a total above 0
NoProgress == [loaded |-> 0, total |-> 0, percentage |-> 0]

\* the page as it is mounted; calls holds the handleSubmit calls started,
\* each with its position and locals, created counts the File objects
\* picked or pasted, fileSizeWarning tells whether the warning is shown
InitialPage ==
    [formData |-> InitialFormData, showSubIssue |-> FALSE, isSubmitting |-> FALSE,
     uploadProgress |-> NoProgress, success |-> NoSuccess, calls |-> << >>,
     created |-> 0, fileSizeWarning |-> FALSE]

\* useState<UserRole | null>(null)
NoRole == "null"

\* localStorage.getItem(STORAGE_KEY) === null
NoItem == "no item"

\* the provider before its mount effect has run, in a browser that holds
\* no stored authentication and has the login page open; result is the
\* value the last login call returned, reloads counts the times the
\* provider was mounted again
InitialAuth ==
    [role |-> NoRole, isAuthenticated |-> FALSE, loading |-> TRUE, storage |-> NoItem,
     location |-> "/login", result |-> "none", reloads |-> 0]

\* an uploadToDrive request that has not arrived
IdleRequest ==
    [pc |-> "idle", submissionId |-> 0, mainFolderId |-> 0, submissionFolderId |-> 0,
     fileId |-> 0]

\* purgeOldFiles is not running; while it runs: the cutoff, the id of the
\* main folder, the entries a loop has still to deal with, the folder
\* whose delete request is pending, the ids of the documents in the batch
IdlePurge ==
    [pc |-> "idle", cutoff |-> 0, mainFolderId |-> 0, pending |-> {}, folder |-> 0,
     batch |-> {}]

\* a Drive without folders and files; created counts the folders and files
\* ever created, arrived the requests, purges the runs of the purge
InitialDrive ==
    [folders |-> {}, files |-> {}, created |-> 0,
     request |-> [r \in 1..NumRequests |-> IdleRequest], purge |-> IdlePurge,
     arrived |-> 0, purges |-> 0]

\* no resumableUpload call; loaded is the last progress reported, id the
\* value the call has returned
IdleUpload ==
    [pc |-> "idle", size |-> 0, uploadedBytes |-> 0, chunkEnd |-> 0, status |-> 0,
     loaded |-> 0, id |-> "none"]

\* the state of the pages, the auth provider and the Drive calls
Front == <<page, auth, drive, upload>>

\* no page is open, nobody has logged in, no upload is under way
FrontIdle ==
    /\ page = InitialPage
    /\ auth = InitialAuth
    /\ drive = InitialDrive
    /\ upload = IdleUpload

\* the counter documents a behaviour may start from: none, one without
\* value field, one for each start value
StartCounters ==
    {AbsentCounter, [exists |-> TRUE, hasValue |-> FALSE, value |-> 0, version |-> 0]}
    \cup {[exists |-> TRUE, hasValue |-> TRUE, value |-> v, version |-> 0] : v \in StartValues}

\* no client is in a call, nothing has been submitted
InitFrom(counters) ==
    /\ fmt = IdleFormat
    /\ cls = IdleClassifier
    /\ counter \in counters
    /\ submissions = {}
    /\ now = 0
    /\ client = [p \in Clients |-> IdleClient]
    /\ ncalls = 0
    /\ returned = << >>
    /\ gaps = {}
    /\ allocFailed = FALSE
    /\ purged = {}
    /\ initialValue = CurrentValue(counter)
    /\ FrontIdle

\* the state of the specifications of the pure functions
Pure == <<fmt, cls>>

\* a new deployment: the counters collection is empty
Init == InitFrom({AbsentCounter})

InitAlloc == InitFrom(StartCounters)

Store == <<counter, submissions, now>>
History == <<returned, gaps, allocFailed, purged, initialValue>>

\* the page a client has open: SubmitPage calls createSubmission,
\* LoanIssueFormPage calls createLoanIssueSubmission
FormOf(p) == IF p % 2 = 1 THEN "standard" ELSE "loan_issue"

\* createSubmission / createLoanIssueSubmission is called with a form that
\* carries n attachments; the first statement awaits generateSubmissionId
StartCreate(p, k, n) ==
    /\ client[p].pc = "idle"
    /\ k = FormOf(p)
    /\ ncalls < MaxCalls
    /\ ncalls' = ncalls + 1
    /\ client' = [client EXCEPT ![p] =
                    [IdleClient EXCEPT !.pc = "allocate", !.kind = k, !.nfiles = n,
                                       !.attempts = 1]]
    /\ UNCHANGED <<Pure, Front, Store, History>>

\* The transaction of generateSubmissionId is modelled twice. Allocate and
\* AllocateFail take runTransaction as the atomic read-modify-write it is
\* for its caller; TxGet, TxCommit, TxRetry, TxExhausted and TxUnavailable
\* spell out the optimistic protocol behind it: read, buffered write, commit
\* refused when the document changed since the read, bounded retries.

\* await generateSubmissionId() resolves: the counter read, the increment
\* and the write happen as one step and the formatted id is returned
Allocate(p) ==
    /\ client[p].pc = "allocate"
    /\ LET nextValue == NextValue(CurrentValue(counter)) IN
         /\ counter' = [exists |-> TRUE, hasValue |-> TRUE, value |-> nextValue,
                        version |-> counter.version + 1]
         /\ client' = [client EXCEPT
                         ![p].pc = IF client[p].nfiles > 0 THEN "upload" ELSE "setDoc",
                         ![p].id = FormatId(nextValue),
                         ![p].val = nextValue]
         /\ returned' = Append(returned,
                               [val |-> nextValue, afterFail |-> allocFailed,
                                afterPurge |-> purged # {}])
    /\ UNCHANGED <<Pure, Front, submissions, now, ncalls, gaps, allocFailed, purged, initialValue>>

\* transaction.get(counterRef), then the synchronous rest of the update
\* function: compute nextValue and buffer transaction.set
TxGet(p) ==
    /\ client[p].pc = "allocate"
    /\ client' = [client EXCEPT ![p].pc = "txCommit",
                                ![p].snap = counter.version,
                                ![p].next = NextValue(CurrentValue(counter))]
    /\ UNCHANGED <<Pure, Front, Store, ncalls, History>>

\* the commit succeeds: the counter document is replaced by { value: nextValue }
\* and the transaction resolves to the formatted id
TxCommit(p) ==
    /\ client[p].pc = "txCommit"
    /\ CommitPrecondition(client[p].snap, counter)
    /\ counter' = [exists |-> TRUE, hasValue |-> TRUE, value |-> client[p].next,
                   version |-> counter.version + 1]
    /\ client' = [client EXCEPT ![p].pc = IF client[p].nfiles > 0 THEN "upload" ELSE "setDoc",
                                ![p].id = FormatId(client[p].next),
                                ![p].val = client[p].next]
    /\ returned' = Append(returned,
                          [val |-> client[p].next, afterFail |-> allocFailed,
                           afterPurge |-> purged # {}])
    /\ UNCHANGED <<Pure, Front, submissions, now, ncalls, gaps, allocFailed, purged, initialValue>>

\* variant: the refused commit is sent again as it is, without a new read
\* and without counting the attempt
TxRetry_NoReread(p) ==
    /\ client[p].pc = "txCommit"
    /\ ~CommitPrecondition(client[p].snap, counter)
    /\ client[p].attempts < MaxAttempts
    /\ client' = [client EXCEPT ![p].pc = "txCommit"]
    /\ UNCHANGED <<Pure, Front, Store, ncalls, History>>

\* the commit is refused because another transaction wrote the counter after
\* this one read it; runTransaction runs the update function again
TxRetry(p) ==
    /\ client[p].pc = "txCommit"
    /\ ~CommitPrecondition(client[p].snap, counter)
    /\ client[p].attempts < MaxAttempts
    /\ client' = [client EXCEPT ![p].pc = "allocate",
                                ![p].attempts = client[p].attempts + 1]
    /\ UNCHANGED <<Pure, Front, Store, ncalls, History>>

\* a create call that has rejected: its locals are gone, the caller knows
\* the statement that threw
Rejected(stage) == [IdleClient EXCEPT !.pc = "failed", !.stage = stage]

\* variant: the create function swallows the rejection and carries on
AllocationFailed_Swallowed(p) ==
    /\ client' = [client EXCEPT ![p].pc = IF client[p].nfiles > 0 THEN "upload" ELSE "setDoc",
                                ![p].stage = "allocate"]
    /\ UNCHANGED <<Pure, Front, Store, ncalls, returned, gaps, purged, initialValue>>

\* variant: the failed transaction has written the counter all the same
AllocationFailed_PartialWrite(p) ==
    /\ client' = [client EXCEPT ![p] = Rejected("allocate")]
    /\ counter' = [exists |-> TRUE, hasValue |-> TRUE,
                   value |-> CurrentValue(counter) + 1, version |-> counter.version + 1]
    /\ UNCHANGED <<Pure, Front, submissions, now, ncalls, returned, gaps, purged, initialValue>>

\* generateSubmissionId rejects; the await in the create function rethrows,
\* so the create call rejects before any statement after line 52 / 139 runs
AllocationFailed(p) ==
    /\ client' = [client EXCEPT ![p] = Rejected("allocate")]
    /\ UNCHANGED <<Pure, Front, Store, ncalls, returned, gaps, purged, initialValue>>

\* await generateSubmissionId() rejects: the transaction could not complete
AllocateFail(p) ==
    /\ client[p].pc = "allocate"
    /\ AllocationFailed(p)
    /\ UNCHANGED allocFailed

\* the commit is refused on the last attempt: runTransaction rejects
TxExhausted(p) ==
    /\ client[p].pc = "txCommit"
    /\ ~CommitPrecondition(client[p].snap, counter)
    /\ client[p].attempts >= MaxAttempts
    /\ AllocationFailed(p)
    /\ allocFailed' = TRUE

\* the store cannot be reached (or denies the request) during the read or
\* the commit: runTransaction rejects without having written anything
TxUnavailable(p) ==
    /\ client[p].pc \in {"allocate", "txCommit"}
    /\ AllocationFailed(p)
    /\ allocFailed' = TRUE

\* uploadFileToDrive(file, submissionId): the POST to uploadToDrive is sent,
\* its body carries the submission id
UploadStart(p) ==
    /\ client[p].pc = "upload"
    /\ client' = [client EXCEPT ![p].pc = "uploading",
                                ![p].sent = client[p].sent + 1,
                                ![p].tag = client[p].id]
    /\ UNCHANGED <<Pure, Front, Store, ncalls, History>>

\* variant: the loop ends after the first file
UploadDone_FirstOnly(p) ==
    /\ client[p].pc = "uploading"
    /\ LET i == Len(client[p].attachments) + 1 IN
         client' = [client EXCEPT
                      ![p].attachments = Append(client[p].attachments, i),
                      ![p].pc = "setDoc"]
    /\ UNCHANGED <<Pure, Front, Store, ncalls, History>>

\* uploadToDrive answers 200 with the file id and the shareable url; the
\* client pushes the attachment and goes on with the next file
UploadDone(p) ==
    /\ client[p].pc = "uploading"
    /\ LET i == Len(client[p].attachments) + 1 IN
         client' = [client EXCEPT
                      ![p].attachments = Append(client[p].attachments, i),
                      ![p].pc = IF i < client[p].nfiles THEN "upload" ELSE "setDoc"]
    /\ UNCHANGED <<Pure, Front, Store, ncalls, History>>

\* variant: the failed upload is skipped and the document is written
UploadFail_Skipped(p) ==
    /\ client[p].pc \in {"upload", "uploading"}
    /\ client' = [client EXCEPT ![p].pc = "setDoc", ![p].stage = "upload"]
    /\ gaps' = gaps \cup {client[p].val}
    /\ UNCHANGED <<Pure, Front, Store, ncalls, returned, allocFailed, purged, initialValue>>

\* uploadFileToDrive throws (file not readable, response not ok, network
\* error): the create function rethrows and never reaches setDoc
UploadFail(p) ==
    /\ client[p].pc \in {"upload", "uploading"}
    /\ client' = [client EXCEPT ![p] = Rejected("upload")]
    /\ gaps' = gaps \cup {client[p].val}
    /\ UNCHANGED <<Pure, Front, Store, ncalls, returned, allocFailed, purged, initialValue>>

FormTypeOf(kind) == IF kind = "loan_issue" THEN "loan_issue" ELSE "absent"

\* the submission document built at lines 105-121 / 192-219
SubmissionData(p) ==
    [id |-> client[p].id, formType |-> FormTypeOf(client[p].kind),
     attachments |-> client[p].attachments, submittedBy |-> p, submittedAt |-> now]

\* setDoc(doc(db, 'submissions', id), data) replaces the document of that key
SetDocument(coll, d) == {x \in coll : x.id # d.id} \cup {d}

\* await setDoc(docRef, submissionData); return submissionId
SetDoc(p) ==
    /\ client[p].pc = "setDoc"
    /\ submissions' = SetDocument(submissions, SubmissionData(p))
    /\ client' = [client EXCEPT ![p] =
                    [IdleClient EXCEPT !.pc = "done", !.id = client[p].id,
                                       !.val = client[p].val,
                                       !.writes = client[p].writes + 1]]
    /\ UNCHANGED <<Pure, Front, counter, now, ncalls, History>>

\* setDoc rejects (store unavailable, permission denied)
SetDocFail(p) ==
    /\ client[p].pc = "setDoc"
    /\ client' = [client EXCEPT ![p] = Rejected("write")]
    /\ UNCHANGED <<Pure, Front, Store, ncalls, History>>

\* the create call has settled; the form may be submitted again
Settle(p) ==
    /\ client[p].pc \in {"done", "failed"}
    /\ client' = [client EXCEPT ![p] = IdleClient]
    /\ UNCHANGED <<Pure, Front, Store, ncalls, History>>

Ids(docs) == {d.id : d \in docs}

\* time passes
Tick ==
    /\ now + TickDays <= MaxTime
    /\ now' = now + TickDays
    /\ UNCHANGED <<Pure, Front, counter, submissions, client, ncalls, History>>

\* ============================================== functions/src/index.ts
\* Every await of uploadToDrive, getOrCreateFolder and purgeOldFiles is one
\* action, so the requests the function serves at the same time, the purge,
\* the create calls and the clock interleave at the calls of the Drive API
\* and of the database. Drive gives every folder and file a new id and
\* accepts folders of the same name under one parent.

\* process.env.GOOGLE_DRIVE_FOLDER_ID
RootFolderId == 0

\* 'Issue Tracker Submissions'
MainFolderName == "Issue Tracker Submissions"

\* the submission ids the requests carry
SubmissionIds == {"SUB-0001", "SUB-0002"}

\* the folders drive.files.list finds for the query of getOrCreateFolder
FoldersNamed(folderName, parentId) ==
    {f \in drive.folders : f.name = folderName /\ f.parent = parentId}

\* the id Drive gives to the next folder or file
NewDriveId == drive.created + 1

\* ids of the folders and files Drive lists for '<parentId>' in parents
ChildrenOf(parentId) ==
    {f.id : f \in {g \in drive.folders : g.parent = parentId}}
    \cup {f.id : f \in {g \in drive.files : g.parent = parentId}}

\* drive.files.delete({ fileId: id }): the entry is removed, and with a
\* folder everything it holds
DeleteEntry(d, id) ==
    [d EXCEPT !.folders = {f \in @ : f.id # id /\ f.parent # id},
              !.files = {f \in @ : f.id # id /\ f.parent # id}]

\* a POST request with file and submissionId arrives: the fields are
\* validated and getOrCreateFolder sends its list request for the main folder
RequestArrives(r, submissionId) ==
    /\ drive.request[r].pc = "idle"
    /\ drive.arrived < MaxUploads
    /\ drive' = [drive EXCEPT
                   !.arrived = @ + 1,
                   !.request[r] =
                       [IdleRequest EXCEPT !.pc = "listMain", !.submissionId = submissionId]]
    /\ UNCHANGED <<Pure, Store, client, ncalls, History, page, auth, upload>>

\* the folder getOrCreateFolder looks for in the request r and its parent
FolderName(r) ==
    IF drive.request[r].pc \in {"listMain", "createMain"}
    THEN MainFolderName ELSE drive.request[r].submissionId

ParentId(r) ==
    IF drive.request[r].pc \in {"listMain", "createMain"}
    THEN RootFolderId ELSE drive.request[r].mainFolderId

\* getOrCreateFolder returns id to uploadToDrive in the request r
FolderReturned(r, id) ==
    IF drive.request[r].pc \in {"listMain", "createMain"}
    THEN [drive.request[r] EXCEPT !.pc = "listSub", !.mainFolderId = id]
    ELSE [drive.request[r] EXCEPT !.pc = "upload", !.submissionFolderId = id]

\* await drive.files.list resolves: a folder that is found is returned
\* (files[0], any of them when several match), else the create request is
\* sent
ListFolders(r) ==
    /\ drive.request[r].pc \in {"listMain", "listSub"}
    /\ LET found == FoldersNamed(FolderName(r), ParentId(r)) IN
         IF found # {}
         THEN \E f \in found : drive' = [drive EXCEPT !.request[r] = FolderReturned(r, f.id)]
         ELSE drive' = [drive EXCEPT !.request[r].pc =
                          IF drive.request[r].pc = "listMain"
                          THEN "createMain" ELSE "createSub"]
    /\ UNCHANGED <<Pure, Store, client, ncalls, History, page, auth, upload>>

\* await drive.files.create resolves: the folder exists and its id is returned
CreateFolder(r) ==
    /\ drive.request[r].pc \in {"createMain", "createSub"}
    /\ drive' = [drive EXCEPT
                   !.created = @ + 1,
                   !.folders = @ \cup {[id |-> NewDriveId, name |-> FolderName(r),
                                        parent |-> ParentId(r), createdTime |-> now]},
                   !.request[r] = FolderReturned(r, NewDriveId)]
    /\ UNCHANGED <<Pure, Store, client, ncalls, History, page, auth, upload>>

\* await drive.files.create for the file resolves: the file is in the
\* folder of the submission, which has to exist, and the request for its
\* permission is sent
UploadFile(r) ==
    /\ drive.request[r].pc = "upload"
    /\ \E f \in drive.folders : f.id = drive.request[r].submissionFolderId
    /\ drive' = [drive EXCEPT
                   !.created = @ + 1,
                   !.files = @ \cup {[id |-> NewDriveId,
                                      submissionId |-> drive.request[r].submissionId,
                                      parent |-> drive.request[r].submissionFolderId,
                                      createdTime |-> now]},
                   !.request[r] = [@ EXCEPT !.pc = "permissions", !.fileId = NewDriveId]]
    /\ UNCHANGED <<Pure, Store, client, ncalls, History, page, auth, upload>>

\* await drive.permissions.create resolves for the file, which has to
\* exist: the request is answered with status 200
SetPermissions(r) ==
    /\ drive.request[r].pc = "permissions"
    /\ \E f \in drive.files : f.id = drive.request[r].fileId
    /\ drive' = [drive EXCEPT !.request[r] = IdleRequest]
    /\ UNCHANGED <<Pure, Store, client, ncalls, History, page, auth, upload>>

\* a call of the Drive API rejects: the catch block answers with status
\* 500; what the request has created stays in Drive
RequestFails(r) ==
    /\ drive.request[r].pc # "idle"
    /\ drive' = [drive EXCEPT !.request[r] = IdleRequest]
    /\ UNCHANGED <<Pure, Store, client, ncalls, History, page, auth, upload>>

\* ------------------------------------------------------------ purgeOldFiles
\* cutoffDate = now - 14 days
Cutoff == now - PurgeAgeDays

\* the scheduled function starts: the cutoff is computed and
\* getOrCreateFolder sends its list request for the main folder
PurgeStarts ==
    /\ drive.purge.pc = "idle"
    /\ drive.purges < MaxPurges
    /\ drive' = [drive EXCEPT !.purges = @ + 1,
                              !.purge = [IdlePurge EXCEPT !.pc = "listMain",
                                                          !.cutoff = Cutoff]]
    /\ UNCHANGED <<Pure, Store, client, ncalls, History, page, auth, upload>>

\* the entries of the main folder created before the cutoff
OldEntries ==
    {f.id : f \in {g \in drive.folders : /\ g.parent = drive.purge.mainFolderId
                                         /\ g.createdTime < drive.purge.cutoff}}
    \cup {f.id : f \in {g \in drive.files : /\ g.parent = drive.purge.mainFolderId
                                            /\ g.createdTime < drive.purge.cutoff}}

\* the purge goes on with the main folder id: the list request for the old
\* entries is sent
MainFolderReturned(id) == [drive.purge EXCEPT !.pc = "listOld", !.mainFolderId = id]

\* getOrCreateFolder of the purge, await drive.files.list resolves
PurgeListMain ==
    /\ drive.purge.pc = "listMain"
    /\ LET found == FoldersNamed(MainFolderName, RootFolderId) IN
         IF found # {}
         THEN \E f \in found : drive' = [drive EXCEPT !.purge = MainFolderReturned(f.id)]
         ELSE drive' = [drive EXCEPT !.purge.pc = "createMain"]
    /\ UNCHANGED <<Pure, Store, client, ncalls, History, page, auth, upload>>

\* getOrCreateFolder of the purge, await drive.files.create resolves
PurgeCreateMain ==
    /\ drive.purge.pc = "createMain"
    /\ drive' = [drive EXCEPT
                   !.created = @ + 1,
                   !.folders = @ \cup {[id |-> NewDriveId, name |-> MainFolderName,
                                        parent |-> RootFolderId, createdTime |-> now]},
                   !.purge = MainFolderReturned(NewDriveId)]
    /\ UNCHANGED <<Pure, Store, client, ncalls, History, page, auth, upload>>

\* the purge after the loops over the old entries and over the folders
\* have dealt with an entry: the next one, or the request that follows
AfterEntry(purge, pending, pc, then) ==
    [purge EXCEPT !.pending = pending, !.folder = 0,
                  !.pc = IF pending = {} THEN then ELSE pc]

\* await drive.files.list resolves with the old entries of the main folder
\* (a single page: fewer than pageSize entries)
PurgeListOld ==
    /\ drive.purge.pc = "listOld"
    /\ drive' = [drive EXCEPT
                   !.purge = AfterEntry(drive.purge, OldEntries, "deleteOld", "listFolders")]
    /\ UNCHANGED <<Pure, Store, client, ncalls, History, page, auth, upload>>

\* await drive.files.delete settles for an old entry: it is deleted, or the
\* rejection is caught and logged; the loop goes on
PurgeDeleteOld(id, deleted) ==
    /\ drive.purge.pc = "deleteOld"
    /\ id \in drive.purge.pending
    /\ drive' = [(IF deleted THEN DeleteEntry(drive, id) ELSE drive) EXCEPT
                   !.purge = AfterEntry(drive.purge, drive.purge.pending \ {id},
                                        "deleteOld", "listFolders")]
    /\ UNCHANGED <<Pure, Store, client, ncalls, History, page, auth, upload>>

\* await drive.files.list resolves with the folders of the main folder
PurgeListFolders ==
    /\ drive.purge.pc = "listFolders"
    /\ drive' = [drive EXCEPT
                   !.purge = AfterEntry(drive.purge,
                                 {f.id : f \in {g \in drive.folders :
                                                   g.parent = drive.purge.mainFolderId}},
                                 "listContents", "get")]
    /\ UNCHANGED <<Pure, Store, client, ncalls, History, page, auth, upload>>

\* await drive.files.list resolves with the contents of the folder id: the
\* delete request is sent for an empty folder, the loop goes on otherwise
PurgeListContents(id) ==
    /\ drive.purge.pc = "listContents"
    /\ id \in drive.purge.pending
    /\ drive' = [drive EXCEPT
                   !.purge = IF ChildrenOf(id) = {}
                             THEN [drive.purge EXCEPT !.pc = "deleteFolder", !.folder = id]
                             ELSE AfterEntry(drive.purge, drive.purge.pending \ {id},
                                             "listContents", "get")]
    /\ UNCHANGED <<Pure, Store, client, ncalls, History, page, auth, upload>>

\* await drive.files.delete settles for the folder found empty: it is
\* deleted, or the rejection is caught and logged; after the last folder
\* the query for the old documents is sent
PurgeDeleteFolder(deleted) ==
    /\ drive.purge.pc = "deleteFolder"
    /\ drive' = [(IF deleted THEN DeleteEntry(drive, drive.purge.folder) ELSE drive) EXCEPT
                   !.purge = AfterEntry(drive.purge,
                                        drive.purge.pending \ {drive.purge.folder},
                                        "listContents", "get")]
    /\ UNCHANGED <<Pure, Store, client, ncalls, History, page, auth, upload>>

\* variant: the query has no age filter
OldSubmissions_All == submissions

\* db.collection('submissions').where('submittedAt', '<', cutoffTimestamp)
OldSubmissions == {d \in submissions : d.submittedAt < drive.purge.cutoff}

\* await ...get() resolves: the batch holds the references of the documents
\* found
PurgeGet ==
    /\ drive.purge.pc = "get"
    /\ drive' = [drive EXCEPT !.purge = [@ EXCEPT !.pc = "commit",
                                                  !.batch = Ids(OldSubmissions)]]
    /\ UNCHANGED <<Pure, Store, client, ncalls, History, page, auth, upload>>

\* variant: the purge clears the counters collection as well
PurgeCommit_ClearsCounter ==
    /\ drive.purge.pc = "commit"
    /\ submissions' = {d \in submissions : d.id \notin drive.purge.batch}
    /\ purged' = purged \cup (Ids(submissions) \cap drive.purge.batch)
    /\ counter' = IF drive.purge.batch # {}
                  THEN [counter EXCEPT !.exists = FALSE, !.hasValue = FALSE, !.value = 0,
                                       !.version = counter.version + 1]
                  ELSE counter
    /\ drive' = [drive EXCEPT !.purge = IdlePurge]
    /\ UNCHANGED <<Pure, now, client, ncalls, returned, gaps, allocFailed, initialValue,
                   page, auth, upload>>

\* await batch.commit() resolves: the documents of the batch are deleted
\* and the function returns. It never touches the counters collection.
PurgeCommit ==
    /\ drive.purge.pc = "commit"
    /\ submissions' = {d \in submissions : d.id \notin drive.purge.batch}
    /\ purged' = purged \cup (Ids(submissions) \cap drive.purge.batch)
    /\ drive' = [drive EXCEPT !.purge = IdlePurge]
    /\ UNCHANGED <<Pure, counter, now, client, ncalls, returned, gaps, allocFailed,
                   initialValue, page, auth, upload>>

\* an await outside the inner try blocks rejects (a list, the folder
\* create, the query or the commit): the error is logged and thrown again
PurgeFails ==
    /\ drive.purge.pc \notin {"idle", "deleteOld", "deleteFolder"}
    /\ drive' = [drive EXCEPT !.purge = IdlePurge]
    /\ UNCHANGED <<Pure, Store, client, ncalls, History, page, auth, upload>>

Kinds == {"standard", "loan_issue"}

\* the create calls with their uploads
Next ==
    \/ \E p \in Clients, k \in Kinds, n \in FileCounts : StartCreate(p, k, n)
    \/ \E p \in Clients : Allocate(p)
    \/ \E p \in Clients : AllocateFail(p)
    \/ \E p \in Clients : UploadStart(p)
    \/ \E p \in Clients : UploadDone(p)
    \/ \E p \in Clients : UploadFail(p)
    \/ \E p \in Clients : SetDoc(p)
    \/ \E p \in Clients : SetDocFail(p)
    \/ \E p \in Clients : Settle(p)

Spec == Init /\ [][Next]_vars

\* create calls of forms without attachments, the clock and the scheduled
\* purge
NextPurge ==
    \/ \E p \in Clients, k \in Kinds : ncalls < MaxPurgeCalls /\ StartCreate(p, k, 0)
    \/ \E p \in Clients : Allocate(p)
    \/ \E p \in Clients : AllocateFail(p)
    \/ \E p \in Clients : SetDoc(p)
    \/ \E p \in Clients : SetDocFail(p)
    \/ \E p \in Clients : Settle(p)
    \/ Tick
    \/ PurgeStarts
    \/ PurgeListMain
    \/ PurgeCreateMain
    \/ PurgeListOld
    \/ PurgeListFolders
    \/ PurgeGet
    \/ PurgeCommit
    \/ PurgeFails

SpecPurge == Init /\ [][NextPurge]_vars

\* concurrent create calls of forms without attachments, with the protocol
\* of the counter transaction spelled out
NextAlloc ==
    \/ \E p \in Clients, k \in Kinds : StartCreate(p, k, 0)
    \/ \E p \in Clients : TxGet(p)
    \/ \E p \in Clients : TxCommit(p)
    \/ \E p \in Clients : TxRetry(p)
    \/ \E p \in Clients : TxExhausted(p)
    \/ \E p \in Clients : TxUnavailable(p)
    \/ \E p \in Clients : SetDoc(p)
    \/ \E p \in Clients : SetDocFail(p)
    \/ \E p \in Clients : Settle(p)

SpecAlloc == InitAlloc /\ [][NextAlloc]_vars

\* the store answers every read and every commit request of a transaction,
\* by accepting the commit or by refusing it; that it becomes unreachable
\* (TxUnavailable) is possible but never required
FairStore ==
    \A p \in Clients :
        /\ WF_vars(TxGet(p))
        /\ WF_vars(TxCommit(p))
        /\ WF_vars(TxRetry(p))
        /\ WF_vars(TxExhausted(p))

SpecAllocFair == SpecAlloc /\ FairStore

\* ------------------------------------------------ the formatter taken alone
Spread == 5            \* integers taken on each side of a change of width

\* integers around every change of the number of digits
FormatInputs ==
    (1..(2 * Spread)) \cup UNION {(w - Spread)..(w + Spread) : w \in {100, 1000, 10000}}

InitFormat ==
    /\ fmt \in [pc : {"in"}, k1 : FormatInputs, k2 : FormatInputs,
                id1 : {NoId}, id2 : {NoId}]
    /\ cls = IdleClassifier
    /\ counter = AbsentCounter
    /\ submissions = {}
    /\ now = 0
    /\ client = [p \in Clients |-> IdleClient]
    /\ ncalls = 0
    /\ returned = << >>
    /\ gaps = {}
    /\ allocFailed = FALSE
    /\ purged = {}
    /\ initialValue = 0
    /\ FrontIdle

\* the return statement of the update function, applied to two integers
FormatIds ==
    /\ fmt.pc = "in"
    /\ fmt' = [fmt EXCEPT !.pc = "out", !.id1 = FormatId(fmt.k1), !.id2 = FormatId(fmt.k2)]
    /\ UNCHANGED <<cls, Front, Store, client, ncalls, History>>

NextFormat == FormatIds

SpecFormat == InitFormat /\ [][NextFormat]_vars

\* ------------------------------------------- the loan issue decision tree
\* Strings are sequences of characters, so that includes() and
\* toLowerCase() are computed on the text itself.

\* the keywords tested by issueType.includes(...), lines 62-104
\* 'Pan Issue'
KwPanIssue ==
    <<"P", "a", "n", " ", "I", "s", "s", "u", "e">>

\* 'Swapping'
KwSwapping ==
    <<"S", "w", "a", "p", "p", "i", "n", "g">>

\* 'Wrong Details Updated by SM'
KwWrongDetails ==
    <<"W", "r", "o", "n", "g", " ", "D", "e", "t", "a", "i", "l", "s", " ", "U", "p", "d",
      "a", "t", "e", "d", " ", "b", "y", " ", "S", "M">>

\* 'System Issue UI'
KwSystemIssueUI ==
    <<"S", "y", "s", "t", "e", "m", " ", "I", "s", "s", "u", "e", " ", "U", "I">>

\* 'Link Expired'
KwLinkExpired ==
    <<"L", "i", "n", "k", " ", "E", "x", "p", "i", "r", "e", "d">>

\* 'Relogin Request'
KwReloginRequest ==
    <<"R", "e", "l", "o", "g", "i", "n", " ", "R", "e", "q", "u", "e", "s", "t">>

\* 'Old Case'
KwOldCase ==
    <<"O", "l", "d", " ", "C", "a", "s", "e">>

\* 'Not Interested'
KwNotInterested ==
    <<"N", "o", "t", " ", "I", "n", "t", "e", "r", "e", "s", "t", "e", "d">>

\* 'BT/Topup Case Error'
KwBTTopup ==
    <<"B", "T", "/", "T", "o", "p", "u", "p", " ", "C", "a", "s", "e", " ", "E", "r", "r",
      "o", "r">>

\* the entries of ISSUE_TYPE_OPTIONS
\* 'Pan Issue (e.g., mapping error, verification failed, primary PAN available)'
OptPanIssue ==
    <<"P", "a", "n", " ", "I", "s", "s", "u", "e", " ", "(", "e", ".", "g", ".", ",", " ",
      "m", "a", "p", "p", "i", "n", "g", " ", "e", "r", "r", "o", "r", ",", " ", "v", "e",
      "r", "i", "f", "i", "c", "a", "t", "i", "o", "n", " ", "f", "a", "i", "l", "e", "d",
      ",", " ", "p", "r", "i", "m", "a", "r", "y", " ", "P", "A", "N", " ", "a", "v", "a",
      "i", "l", "a", "b", "l", "e", ")">>

\* 'Swapping (e.g., reassign applicant to co-applicant or vice versa)'
OptSwapping ==
    <<"S", "w", "a", "p", "p", "i", "n", "g", " ", "(", "e", ".", "g", ".", ",", " ", "r",
      "e", "a", "s", "s", "i", "g", "n", " ", "a", "p", "p", "l", "i", "c", "a", "n", "t",
      " ", "t", "o", " ", "c", "o", "-", "a", "p", "p", "l", "i", "c", "a", "n", "t", " ",
      "o", "r", " ", "v", "i", "c", "e", " ", "v", "e", "r", "s", "a", ")">>

\* 'Wrong Details Updated by SM (e.g., phone no, income, property type wrong)'
OptWrongDetails ==
    <<"W", "r", "o", "n", "g", " ", "D", "e", "t", "a", "i", "l", "s", " ", "U", "p", "d",
      "a", "t", "e", "d", " ", "b", "y", " ", "S", "M", " ", "(", "e", ".", "g", ".", ",",
      " ", "p", "h", "o", "n", "e", " ", "n", "o", ",", " ", "i", "n", "c", "o", "m", "e",
      ",", " ", "p", "r", "o", "p", "e", "r", "t", "y", " ", "t", "y", "p", "e", " ", "w",
      "r", "o", "n", "g", ")">>

\* 'System Issue UI (e.g., form not accessible, data not saving)'
OptSystemIssueUI ==
    <<"S", "y", "s", "t", "e", "m", " ", "I", "s", "s", "u", "e", " ", "U", "I", " ", "(",
      "e", ".", "g", ".", ",", " ", "f", "o", "r", "m", " ", "n", "o", "t", " ", "a", "c",
      "c", "e", "s", "s", "i", "b", "l", "e", ",", " ", "d", "a", "t", "a", " ", "n", "o",
      "t", " ", "s", "a", "v", "i", "n", "g", ")">>

\* 'Link Expired (e.g., Account Aggregator, IMD link)'
OptLinkExpired ==
    <<"L", "i", "n", "k", " ", "E", "x", "p", "i", "r", "e", "d", " ", "(", "e", ".", "g",
      ".", ",", " ", "A", "c", "c", "o", "u", "n", "t", " ", "A", "g", "g", "r", "e", "g",
      "a", "t", "o", "r", ",", " ", "I", "M", "D", " ", "l", "i", "n", "k", ")">>

\* 'Relogin Request (e.g., fresh CIBIL pull needed)'
OptReloginRequest ==
    <<"R", "e", "l", "o", "g", "i", "n", " ", "R", "e", "q", "u", "e", "s", "t", " ", "(",
      "e", ".", "g", ".", ",", " ", "f", "r", "e", "s", "h", " ", "C", "I", "B", "I", "L",
      " ", "p", "u", "l", "l", " ", "n", "e", "e", "d", "e", "d", ")">>

\* 'Old Case (e.g., reject to re-login with fresh data)'
OptOldCase ==
    <<"O", "l", "d", " ", "C", "a", "s", "e", " ", "(", "e", ".", "g", ".", ",", " ", "r",
      "e", "j", "e", "c", "t", " ", "t", "o", " ", "r", "e", "-", "l", "o", "g", "i", "n",
      " ", "w", "i", "t", "h", " ", "f", "r", "e", "s", "h", " ", "d", "a", "t", "a", ")">>

\* 'Not Interested in Further Loan Process'
OptNotInterested ==
    <<"N", "o", "t", " ", "I", "n", "t", "e", "r", "e", "s", "t", "e", "d", " ", "i", "n",
      " ", "F", "u", "r", "t", "h", "e", "r", " ", "L", "o", "a", "n", " ", "P", "r", "o",
      "c", "e", "s", "s">>

\* 'BT/Topup Case Error (e.g., wrong loan type selected)'
OptBTTopup ==
    <<"B", "T", "/", "T", "o", "p", "u", "p", " ", "C", "a", "s", "e", " ", "E", "r", "r",
      "o", "r", " ", "(", "e", ".", "g", ".", ",", " ", "w", "r", "o", "n", "g", " ", "l",
      "o", "a", "n", " ", "t", "y", "p", "e", " ", "s", "e", "l", "e", "c", "t", "e", "d",
      ")">>

\* 'Other (free-text fallback)'
OptOther ==
    <<"O", "t", "h", "e", "r", " ", "(", "f", "r", "e", "e", "-", "t", "e", "x", "t", " ",
      "f", "a", "l", "l", "b", "a", "c", "k", ")">>

\* variant: the example of the Swapping option mentions a Pan Issue
ISSUE_TYPE_OPTIONS_Overlapping ==
    <<OptPanIssue, OptSwapping \o <<" ">> \o KwPanIssue, OptWrongDetails, OptSystemIssueUI,
      OptLinkExpired, OptReloginRequest, OptOldCase, OptNotInterested, OptBTTopup, OptOther>>

ISSUE_TYPE_OPTIONS ==
    <<OptPanIssue, OptSwapping, OptWrongDetails, OptSystemIssueUI, OptLinkExpired,
      OptReloginRequest, OptOldCase, OptNotInterested, OptBTTopup, OptOther>>

\* the entries of ACTION_OPTIONS
\* 'Reject Lead (full or entity-specific)'
ActRejectLead ==
    <<"R", "e", "j", "e", "c", "t", " ", "L", "e", "a", "d", " ", "(", "f", "u", "l", "l",
      " ", "o", "r", " ", "e", "n", "t", "i", "t", "y", "-", "s", "p", "e", "c", "i", "f",
      "i", "c", ")">>

\* 'Reopen Task (e.g., KYC, Loan & Property Details, Income Details)'
ActReopenTask ==
    <<"R", "e", "o", "p", "e", "n", " ", "T", "a", "s", "k", " ", "(", "e", ".", "g", ".",
      ",", " ", "K", "Y", "C", ",", " ", "L", "o", "a", "n", " ", "&", " ", "P", "r", "o",
      "p", "e", "r", "t", "y", " ", "D", "e", "t", "a", "i", "l", "s", ",", " ", "I", "n",
      "c", "o", "m", "e", " ", "D", "e", "t", "a", "i", "l", "s", ")">>

\* 'Generate New Link (e.g., AA, IMD)'
ActGenerateNewLink ==
    <<"G", "e", "n", "e", "r", "a", "t", "e", " ", "N", "e", "w", " ", "L", "i", "n", "k",
      " ", "(", "e", ".", "g", ".", ",", " ", "A", "A", ",", " ", "I", "M", "D", ")">>

\* 'Change Field (e.g., Income Yes/No, Program Type)'
ActChangeField ==
    <<"C", "h", "a", "n", "g", "e", " ", "F", "i", "e", "l", "d", " ", "(", "e", ".", "g",
      ".", ",", " ", "I", "n", "c", "o", "m", "e", " ", "Y", "e", "s", "/", "N", "o", ",",
      " ", "P", "r", "o", "g", "r", "a", "m", " ", "T", "y", "p", "e", ")">>

\* 'Move to CPA Tray'
ActMoveToCPATray ==
    <<"M", "o", "v", "e", " ", "t", "o", " ", "C", "P", "A", " ", "T", "r", "a", "y">>

\* 'Resolve Mapping (e.g., provide full phone no)'
ActResolveMapping ==
    <<"R", "e", "s", "o", "l", "v", "e", " ", "M", "a", "p", "p", "i", "n", "g", " ", "(",
      "e", ".", "g", ".", ",", " ", "p", "r", "o", "v", "i", "d", "e", " ", "f", "u", "l",
      "l", " ", "p", "h", "o", "n", "e", " ", "n", "o", ")">>

\* 'No Action (resolve as is)'
ActNoAction ==
    <<"N", "o", " ", "A", "c", "t", "i", "o", "n", " ", "(", "r", "e", "s", "o", "l", "v",
      "e", " ", "a", "s", " ", "i", "s", ")">>

ACTION_OPTIONS ==
    <<ActRejectLead, ActReopenTask, ActGenerateNewLink, ActChangeField, ActMoveToCPATray,
      ActResolveMapping, ActNoAction>>

\* 'Manual Review'
ActManualReview ==
    <<"M", "a", "n", "u", "a", "l", " ", "R", "e", "v", "i", "e", "w">>

\* entries of SUB_ISSUES_MAP
\* 'Primary PAN Available'
SubPrimaryPAN ==
    <<"P", "r", "i", "m", "a", "r", "y", " ", "P", "A", "N", " ", "A", "v", "a", "i", "l",
      "a", "b", "l", "e">>

\* 'Mapping Error'
SubMappingError ==
    <<"M", "a", "p", "p", "i", "n", "g", " ", "E", "r", "r", "o", "r">>

\* 'Income Wrong (Yes/No)'
SubIncomeWrong ==
    <<"I", "n", "c", "o", "m", "e", " ", "W", "r", "o", "n", "g", " ", "(", "Y", "e", "s",
      "/", "N", "o", ")">>

\* the vocabulary searched in the notes
\* 'primary'
WordPrimary ==
    <<"p", "r", "i", "m", "a", "r", "y">>

\* 'resolved'
WordResolved ==
    <<"r", "e", "s", "o", "l", "v", "e", "d">>

\* 'income'
WordIncome ==
    <<"i", "n", "c", "o", "m", "e">>

\* the reason of each branch
\* 'PAN verification or mapping failure detected. Common in data (e.g., primary PAN available).'
ReasonPan ==
    <<"P", "A", "N", " ", "v", "e", "r", "i", "f", "i", "c", "a", "t", "i", "o", "n", " ",
      "o", "r", " ", "m", "a", "p", "p", "i", "n", "g", " ", "f", "a", "i", "l", "u", "r",
      "e", " ", "d", "e", "t", "e", "c", "t", "e", "d", ".", " ", "C", "o", "m", "m", "o",
      "n", " ", "i", "n", " ", "d", "a", "t", "a", " ", "(", "e", ".", "g", ".", ",", " ",
      "p", "r", "i", "m", "a", "r", "y", " ", "P", "A", "N", " ", "a", "v", "a", "i", "l",
      "a", "b", "l", "e", ")", ".">>

\* 'Role swap required (applicant ↔ co-applicant). Frequent in data for adding to another lead.'
ReasonSwapping ==
    <<"R", "o", "l", "e", " ", "s", "w", "a", "p", " ", "r", "e", "q", "u", "i", "r", "e",
      "d", " ", "(", "a", "p", "p", "l", "i", "c", "a", "n", "t", " ", "↔", " ", "c", "o",
      "-", "a", "p", "p", "l", "i", "c", "a", "n", "t", ")", ".", " ", "F", "r", "e", "q",
      "u", "e", "n", "t", " ", "i", "n", " ", "d", "a", "t", "a", " ", "f", "o", "r", " ",
      "a", "d", "d", "i", "n", "g", " ", "t", "o", " ", "a", "n", "o", "t", "h", "e", "r",
      " ", "l", "e", "a", "d", ".">>

\* 'SM error (e.g., wrong phone, income, property). Reopen affected task.'
ReasonWrongDetails ==
    <<"S", "M", " ", "e", "r", "r", "o", "r", " ", "(", "e", ".", "g", ".", ",", " ", "w",
      "r", "o", "n", "g", " ", "p", "h", "o", "n", "e", ",", " ", "i", "n", "c", "o", "m",
      "e", ",", " ", "p", "r", "o", "p", "e", "r", "t", "y", ")", ".", " ", "R", "e", "o",
      "p", "e", "n", " ", "a", "f", "f", "e", "c", "t", "e", "d", " ", "t", "a", "s", "k",
      ".">>

\* 'UI error (e.g., form not accessible). Check for intermittent issues.'
ReasonSystemIssueUI ==
    <<"U", "I", " ", "e", "r", "r", "o", "r", " ", "(", "e", ".", "g", ".", ",", " ", "f",
      "o", "r", "m", " ", "n", "o", "t", " ", "a", "c", "c", "e", "s", "s", "i", "b", "l",
      "e", ")", ".", " ", "C", "h", "e", "c", "k", " ", "f", "o", "r", " ", "i", "n", "t",
      "e", "r", "m", "i", "t", "t", "e", "n", "t", " ", "i", "s", "s", "u", "e", "s", ".">>

\* 'AA/IMD link expired. Common timeout issue in data.'
ReasonLinkExpired ==
    <<"A", "A", "/", "I", "M", "D", " ", "l", "i", "n", "k", " ", "e", "x", "p", "i", "r",
      "e", "d", ".", " ", "C", "o", "m", "m", "o", "n", " ", "t", "i", "m", "e", "o", "u",
      "t", " ", "i", "s", "s", "u", "e", " ", "i", "n", " ", "d", "a", "t", "a", ".">>

\* 'Old/duplicate case; relogin for fresh CIBIL.'
ReasonOldCase ==
    <<"O", "l", "d", "/", "d", "u", "p", "l", "i", "c", "a", "t", "e", " ", "c", "a", "s",
      "e", ";", " ", "r", "e", "l", "o", "g", "i", "n", " ", "f", "o", "r", " ", "f", "r",
      "e", "s", "h", " ", "C", "I", "B", "I", "L", ".">>

\* 'Customer disinterest.'
ReasonNotInterested ==
    <<"C", "u", "s", "t", "o", "m", "e", "r", " ", "d", "i", "s", "i", "n", "t", "e", "r",
      "e", "s", "t", ".">>

\* 'Wrong loan type (BT/Topup vs. fresh).'
ReasonBTTopup ==
    <<"W", "r", "o", "n", "g", " ", "l", "o", "a", "n", " ", "t", "y", "p", "e", " ", "(",
      "B", "T", "/", "T", "o", "p", "u", "p", " ", "v", "s", ".", " ", "f", "r", "e", "s",
      "h", ")", ".">>

\* 'Unclassified issue.'
ReasonOther ==
    <<"U", "n", "c", "l", "a", "s", "s", "i", "f", "i", "e", "d", " ", "i", "s", "s", "u",
      "e", ".">>

\* the next steps pushed by the branches
\* 'Relogin with correct mobile no linked to PAN.'
StepRelogin ==
    <<"R", "e", "l", "o", "g", "i", "n", " ", "w", "i", "t", "h", " ", "c", "o", "r", "r",
      "e", "c", "t", " ", "m", "o", "b", "i", "l", "e", " ", "n", "o", " ", "l", "i", "n",
      "k", "e", "d", " ", "t", "o", " ", "P", "A", "N", ".">>

\* 'API Call: Check PAN mapping in database (e.g., query for full phone no).'
StepCheckMapping ==
    <<"A", "P", "I", " ", "C", "a", "l", "l", ":", " ", "C", "h", "e", "c", "k", " ", "P",
      "A", "N", " ", "m", "a", "p", "p", "i", "n", "g", " ", "i", "n", " ", "d", "a", "t",
      "a", "b", "a", "s", "e", " ", "(", "e", ".", "g", ".", ",", " ", "q", "u", "e", "r",
      "y", " ", "f", "o", "r", " ", "f", "u", "l", "l", " ", "p", "h", "o", "n", "e", " ",
      "n", "o", ")", ".">>

\* 'Add entity to target lead as opposite of current entity.'
StepAddEntity ==
    <<"A", "d", "d", " ", "e", "n", "t", "i", "t", "y", " ", "t", "o", " ", "t", "a", "r",
      "g", "e", "t", " ", "l", "e", "a", "d", " ", "a", "s", " ", "o", "p", "p", "o", "s",
      "i", "t", "e", " ", "o", "f", " ", "c", "u", "r", "r", "e", "n", "t", " ", "e", "n",
      "t", "i", "t", "y", ".">>

\* 'API Call: Update LSQ opportunity with new structure.'
StepUpdateOpportunity ==
    <<"A", "P", "I", " ", "C", "a", "l", "l", ":", " ", "U", "p", "d", "a", "t", "e", " ",
      "L", "S", "Q", " ", "o", "p", "p", "o", "r", "t", "u", "n", "i", "t", "y", " ", "w",
      "i", "t", "h", " ", "n", "e", "w", " ", "s", "t", "r", "u", "c", "t", "u", "r", "e",
      ".">>

\* 'Change income Yes/No via backend update.'
StepChangeIncome ==
    <<"C", "h", "a", "n", "g", "e", " ", "i", "n", "c", "o", "m", "e", " ", "Y", "e", "s",
      "/", "N", "o", " ", "v", "i", "a", " ", "b", "a", "c", "k", "e", "n", "d", " ", "u",
      "p", "d", "a", "t", "e", ".">>

\* 'API Call: Reopen specific task (e.g., Loan & Property Details).'
StepReopenTask ==
    <<"A", "P", "I", " ", "C", "a", "l", "l", ":", " ", "R", "e", "o", "p", "e", "n", " ",
      "s", "p", "e", "c", "i", "f", "i", "c", " ", "t", "a", "s", "k", " ", "(", "e", ".",
      "g", ".", ",", " ", "L", "o", "a", "n", " ", "&", " ", "P", "r", "o", "p", "e", "r",
      "t", "y", " ", "D", "e", "t", "a", "i", "l", "s", ")", ".">>

\* 'Instruct SM to clear cache/relogin.'
StepClearCache ==
    <<"I", "n", "s", "t", "r", "u", "c", "t", " ", "S", "M", " ", "t", "o", " ", "c", "l",
      "e", "a", "r", " ", "c", "a", "c", "h", "e", "/", "r", "e", "l", "o", "g", "i", "n",
      ".">>

\* 'Escalate to tech if persistent (log error screenshot).'
StepEscalateTech ==
    <<"E", "s", "c", "a", "l", "a", "t", "e", " ", "t", "o", " ", "t", "e", "c", "h", " ",
      "i", "f", " ", "p", "e", "r", "s", "i", "s", "t", "e", "n", "t", " ", "(", "l", "o",
      "g", " ", "e", "r", "r", "o", "r", " ", "s", "c", "r", "e", "e", "n", "s", "h", "o",
      "t", ")", ".">>

\* 'API Call: Regenerate link and send to user.'
StepRegenerateLink ==
    <<"A", "P", "I", " ", "C", "a", "l", "l", ":", " ", "R", "e", "g", "e", "n", "e", "r",
      "a", "t", "e", " ", "l", "i", "n", "k", " ", "a", "n", "d", " ", "s", "e", "n", "d",
      " ", "t", "o", " ", "u", "s", "e", "r", ".">>

\* 'API Call: Pull fresh CIBIL report after reject.'
StepPullCibil ==
    <<"A", "P", "I", " ", "C", "a", "l", "l", ":", " ", "P", "u", "l", "l", " ", "f", "r",
      "e", "s", "h", " ", "C", "I", "B", "I", "L", " ", "r", "e", "p", "o", "r", "t", " ",
      "a", "f", "t", "e", "r", " ", "r", "e", "j", "e", "c", "t", ".">>

\* 'Mark as closed in CRM.'
StepMarkClosed ==
    <<"M", "a", "r", "k", " ", "a", "s", " ", "c", "l", "o", "s", "e", "d", " ", "i", "n",
      " ", "C", "R", "M", ".">>

\* 'Update loan type and resubmit.'
StepUpdateLoanType ==
    <<"U", "p", "d", "a", "t", "e", " ", "l", "o", "a", "n", " ", "t", "y", "p", "e", " ",
      "a", "n", "d", " ", "r", "e", "s", "u", "b", "m", "i", "t", ".">>

\* 'Escalate to support team.'
StepEscalateSupport ==
    <<"E", "s", "c", "a", "l", "a", "t", "e", " ", "t", "o", " ", "s", "u", "p", "p", "o",
      "r", "t", " ", "t", "e", "a", "m", ".">>

\* ' (Overridden from requested: '
OverriddenPrefix ==
    <<" ", "(", "O", "v", "e", "r", "r", "i", "d", "d", "e", "n", " ", "f", "r", "o", "m",
      " ", "r", "e", "q", "u", "e", "s", "t", "e", "d", ":", " ">>

\* ')'
OverriddenSuffix ==
    <<")">>

\* variant: a missing field is read as 'Primary PAN Available'
OrEmpty_Preselected(v) == IF v = Undefined THEN SubPrimaryPAN ELSE v

\* v || '' for a string or a missing field
OrEmpty(v) == IF v = Undefined THEN << >> ELSE v

UpperChars ==
    <<"A", "B", "C", "D", "E", "F", "G", "H", "I", "J", "K", "L", "M", "N", "O", "P", "Q",
      "R", "S", "T", "U", "V", "W", "X", "Y", "Z">>

LowerChars ==
    <<"a", "b", "c", "d", "e", "f", "g", "h", "i", "j", "k", "l", "m", "n", "o", "p", "q",
      "r", "s", "t", "u", "v", "w", "x", "y", "z">>

LowerChar(c) ==
    IF \E k \in 1..26 : UpperChars[k] = c
    THEN LowerChars[CHOOSE k \in 1..26 : UpperChars[k] = c]
    ELSE c

\* s.toLowerCase(), for text in the basic Latin alphabet
ToLowerCase(s) == [i \in 1..Len(s) |-> LowerChar(s[i])]

\* s.includes(sub): sub occurs in s at some offset
Includes(s, sub) ==
    \E i \in 0..(Len(s) - Len(sub)) : \A j \in 1..Len(sub) : s[i + j] = sub[j]

\* variant: the test for Swapping comes before the test for Pan Issue
Branch_SwappingFirst(issueType) ==
    IF Includes(issueType, KwSwapping) THEN "Swapping"
    ELSE IF Includes(issueType, KwPanIssue) THEN "Pan Issue"
    ELSE IF Includes(issueType, KwWrongDetails) THEN "Wrong Details Updated by SM"
    ELSE IF Includes(issueType, KwSystemIssueUI) THEN "System Issue UI"
    ELSE IF Includes(issueType, KwLinkExpired) THEN "Link Expired"
    ELSE IF Includes(issueType, KwReloginRequest) \/ Includes(issueType, KwOldCase)
         THEN "Old Case"
    ELSE IF Includes(issueType, KwNotInterested) THEN "Not Interested"
    ELSE IF Includes(issueType, KwBTTopup) THEN "BT/Topup Case Error"
    ELSE "Other"

\* the conditions of the if / else if chain, in the order of the source:
\* the branch taken is the first whose keyword occurs in issueType
Branch(issueType) ==
    IF Includes(issueType, KwPanIssue) THEN "Pan Issue"
    ELSE IF Includes(issueType, KwSwapping) THEN "Swapping"
    ELSE IF Includes(issueType, KwWrongDetails) THEN "Wrong Details Updated by SM"
    ELSE IF Includes(issueType, KwSystemIssueUI) THEN "System Issue UI"
    ELSE IF Includes(issueType, KwLinkExpired) THEN "Link Expired"
    ELSE IF Includes(issueType, KwReloginRequest) \/ Includes(issueType, KwOldCase)
         THEN "Old Case"
    ELSE IF Includes(issueType, KwNotInterested) THEN "Not Interested"
    ELSE IF Includes(issueType, KwBTTopup) THEN "BT/Topup Case Error"
    ELSE "Other"

\* variant: only the notes decide
PanAction_NotesOnly(subIssue, notes) ==
    IF Includes(notes, WordPrimary) THEN ActRejectLead ELSE ActResolveMapping

\* if (subIssue === 'Primary PAN Available' || notes.includes('primary'))
PanAction(subIssue, notes) ==
    IF subIssue = SubPrimaryPAN \/ Includes(notes, WordPrimary)
    THEN ActRejectLead
    ELSE ActResolveMapping

PanBranch(subIssue, notes) ==
    [recommendedAction |-> PanAction(subIssue, notes),
     reason |-> ReasonPan,
     nextSteps |-> <<StepRelogin, StepCheckMapping>>]

SwappingBranch ==
    [recommendedAction |-> ActRejectLead,
     reason |-> ReasonSwapping,
     nextSteps |-> <<StepAddEntity, StepUpdateOpportunity>>]

\* variant: the income step is pushed after the reopen step
WrongDetailsSteps_IncomeLast(notes) ==
    <<StepReopenTask>> \o (IF Includes(notes, WordIncome) THEN <<StepChangeIncome>> ELSE << >>)

\* if (notes.includes('income')) push(income step); push(reopen step)
WrongDetailsSteps(notes) ==
    (IF Includes(notes, WordIncome) THEN <<StepChangeIncome>> ELSE << >>) \o <<StepReopenTask>>

WrongDetailsBranch(notes) ==
    [recommendedAction |-> ActReopenTask,
     reason |-> ReasonWrongDetails,
     nextSteps |-> WrongDetailsSteps(notes)]

\* variant: the two outcomes are exchanged
SystemIssueAction_Exchanged(notes) ==
    IF Includes(notes, WordResolved) THEN ActRejectLead ELSE ActNoAction

\* if (notes.includes('resolved'))
SystemIssueAction(notes) ==
    IF Includes(notes, WordResolved) THEN ActNoAction ELSE ActRejectLead

SystemIssueUIBranch(notes) ==
    [recommendedAction |-> SystemIssueAction(notes),
     reason |-> ReasonSystemIssueUI,
     nextSteps |-> <<StepClearCache, StepEscalateTech>>]

\* variant: the link is regenerated and the case escalated
LinkExpiredBranch_Escalates ==
    [recommendedAction |-> ActGenerateNewLink,
     reason |-> ReasonLinkExpired,
     nextSteps |-> <<StepRegenerateLink, StepEscalateSupport>>]

LinkExpiredBranch ==
    [recommendedAction |-> ActGenerateNewLink,
     reason |-> ReasonLinkExpired,
     nextSteps |-> <<StepRegenerateLink>>]

OldCaseBranch ==
    [recommendedAction |-> ActRejectLead,
     reason |-> ReasonOldCase,
     nextSteps |-> <<StepPullCibil>>]

NotInterestedBranch ==
    [recommendedAction |-> ActRejectLead,
     reason |-> ReasonNotInterested,
     nextSteps |-> <<StepMarkClosed>>]

BTTopupBranch ==
    [recommendedAction |-> ActReopenTask,
     reason |-> ReasonBTTopup,
     nextSteps |-> <<StepUpdateLoanType>>]

\* variant: no step is pushed for an unclassified issue
OtherBranch_NoSteps ==
    [recommendedAction |-> ActManualReview,
     reason |-> ReasonOther,
     nextSteps |-> << >>]

\* the final else
OtherBranch ==
    [recommendedAction |-> ActManualReview,
     reason |-> ReasonOther,
     nextSteps |-> <<StepEscalateSupport>>]

\* the bodies of the chain: what the branch taken assigns to
\* recommendedAction and reason and pushes to nextSteps
DecisionTree(issueType, subIssue, notes) ==
    LET branch == Branch(issueType) IN
    CASE branch = "Pan Issue" -> PanBranch(subIssue, notes)
      [] branch = "Swapping" -> SwappingBranch
      [] branch = "Wrong Details Updated by SM" -> WrongDetailsBranch(notes)
      [] branch = "System Issue UI" -> SystemIssueUIBranch(notes)
      [] branch = "Link Expired" -> LinkExpiredBranch
      [] branch = "Old Case" -> OldCaseBranch
      [] branch = "Not Interested" -> NotInterestedBranch
      [] branch = "BT/Topup Case Error" -> BTTopupBranch
      [] OTHER -> OtherBranch

\* variant: the note is appended whatever the requested action
OverrideCheck_Always(reason, actionRequested, recommendedAction) ==
    reason \o OverriddenPrefix \o actionRequested \o OverriddenSuffix

\* if (formData.actionRequested !== recommendedAction)
\*     reason += ` (Overridden from requested: ${formData.actionRequested})`
OverrideCheck(reason, actionRequested, recommendedAction) ==
    IF actionRequested # recommendedAction
    THEN reason \o OverriddenPrefix \o actionRequested \o OverriddenSuffix
    ELSE reason

\* variant: a requested action is kept when the tree asks for a manual review
ProcessLoanIssueDecisionTree_KeepsRequested(formData) ==
    LET tree == DecisionTree(formData.issueType, OrEmpty(formData.subIssue),
                             ToLowerCase(OrEmpty(formData.notes)))
        action == IF tree.recommendedAction = ActManualReview
                  THEN formData.actionRequested
                  ELSE tree.recommendedAction
    IN [recommendedAction |-> action,
        reason |-> OverrideCheck(tree.reason, formData.actionRequested, action),
        nextSteps |-> tree.nextSteps]

\* processLoanIssueDecisionTree(formData)
ProcessLoanIssueDecisionTree(formData) ==
    LET tree == DecisionTree(formData.issueType, OrEmpty(formData.subIssue),
                             ToLowerCase(OrEmpty(formData.notes)))
    IN [recommendedAction |-> tree.recommendedAction,
        reason |-> OverrideCheck(tree.reason, formData.actionRequested,
                                 tree.recommendedAction),
        nextSteps |-> tree.nextSteps]

\* ---------------------------------------- the decision tree taken alone
MaxPad == 1            \* characters put in front of a keyword
MaxClassifyCalls == 3  \* calls of the decision tree in one behaviour

Keywords ==
    {KwPanIssue, KwSwapping, KwWrongDetails, KwSystemIssueUI, KwLinkExpired,
     KwReloginRequest, KwOldCase, KwNotInterested, KwBTTopup}

\* 'Something entirely unrecognized'
TypeUnrecognized ==
    <<"S", "o", "m", "e", "t", "h", "i", "n", "g", " ", "e", "n", "t", "i", "r", "e", "l",
      "y", " ", "u", "n", "r", "e", "c", "o", "g", "n", "i", "z", "e", "d">>

\* 'pan issue, link expired'
TypeLowerCase ==
    <<"p", "a", "n", " ", "i", "s", "s", "u", "e", ",", " ", "l", "i", "n", "k", " ", "e",
      "x", "p", "i", "r", "e", "d">>

Filler(n) == [i \in 1..n |-> "x"]

\* issue types: the options of the form, text without keyword (the empty
\* string, other text, keywords in lower case, keywords cut short), and every
\* keyword behind some filler
SingleIssueTypes ==
    {ISSUE_TYPE_OPTIONS[i] : i \in DOMAIN ISSUE_TYPE_OPTIONS}
    \cup {<< >>, TypeUnrecognized, TypeLowerCase}
    \cup {SubSeq(k, 1, Len(k) - 1) : k \in Keywords}
    \cup {Filler(n) \o k : k \in Keywords, n \in 0..MaxPad}

\* issue types that carry two keywords, in either order
PairIssueTypes == {k1 \o <<" ">> \o k2 : k1 \in Keywords, k2 \in Keywords} \ {k \o <<" ">> \o k : k \in Keywords}

SubIssues == {Undefined, SubPrimaryPAN, SubMappingError, SubIncomeWrong, ToLowerCase(SubPrimaryPAN)}

\* 'PRIMARY pan is on file'
NotesPrimary ==
    <<"P", "R", "I", "M", "A", "R", "Y", " ", "p", "a", "n", " ", "i", "s", " ", "o", "n",
      " ", "f", "i", "l", "e">>

\* 'issue was resolved already'
NotesResolved ==
    <<"i", "s", "s", "u", "e", " ", "w", "a", "s", " ", "r", "e", "s", "o", "l", "v", "e",
      "d", " ", "a", "l", "r", "e", "a", "d", "y">>

\* 'Income is wrong'
NotesIncome ==
    <<"I", "n", "c", "o", "m", "e", " ", "i", "s", " ", "w", "r", "o", "n", "g">>

\* 'Resolved; primary income'
NotesAll ==
    <<"R", "e", "s", "o", "l", "v", "e", "d", ";", " ", "p", "r", "i", "m", "a", "r", "y",
      " ", "i", "n", "c", "o", "m", "e">>

\* 'please call back'
NotesPlain ==
    <<"p", "l", "e", "a", "s", "e", " ", "c", "a", "l", "l", " ", "b", "a", "c", "k">>

NotesSamples == {Undefined, NotesPrimary, NotesResolved, NotesIncome, NotesAll, NotesPlain}

\* the requested actions: the options of the form and the action of the
\* final else, which the form does not offer
Requests == ACTION_OPTIONS \o <<ActManualReview>>

Actions == {Requests[i] : i \in DOMAIN Requests}

FormInputs ==
    [issueType : SingleIssueTypes, subIssue : SubIssues, notes : NotesSamples,
     actionRequested : Actions]
    \cup [issueType : PairIssueTypes, subIssue : {Undefined, SubPrimaryPAN},
          notes : {Undefined, NotesAll}, actionRequested : {ActRejectLead, ActReopenTask}]

\* the action that follows a in Requests, the first one after the last
OtherRequest(a) ==
    LET i == CHOOSE k \in DOMAIN Requests : Requests[k] = a
    IN Requests[(i % Len(Requests)) + 1]

InitClassify ==
    /\ cls \in [pc : {"in"}, formData : FormInputs, result : {NoResult},
                 formData2 : {NoForm}, result2 : {NoResult}, log : {<< >>},
                 heap : {<< >>}]
    /\ fmt = IdleFormat
    /\ counter = AbsentCounter
    /\ submissions = {}
    /\ now = 0
    /\ client = [p \in Clients |-> IdleClient]
    /\ ncalls = 0
    /\ returned = << >>
    /\ gaps = {}
    /\ allocFailed = FALSE
    /\ purged = {}
    /\ initialValue = 0
    /\ FrontIdle

\* const decisionResult = processLoanIssueDecisionTree(submissionData)
Classify ==
    /\ cls.pc = "in"
    /\ cls' = [cls EXCEPT !.pc = "out",
                          !.result = ProcessLoanIssueDecisionTree(cls.formData)]
    /\ UNCHANGED <<fmt, Front, Store, client, ncalls, History>>

\* the same form is classified again with another requested action
ClassifyOtherRequest ==
    /\ cls.pc = "out"
    /\ LET changed == [cls.formData EXCEPT
                          !.actionRequested = OtherRequest(cls.formData.actionRequested)]
       IN cls' = [cls EXCEPT !.pc = "out2", !.formData2 = changed,
                             !.result2 = ProcessLoanIssueDecisionTree(changed)]
    /\ UNCHANGED <<fmt, Front, Store, client, ncalls, History>>

NextClassify == Classify \/ ClassifyOtherRequest

SpecClassify == InitClassify /\ [][NextClassify]_vars

\* forms whose sub issue and notes are missing or filled in
MissingInputs ==
    [issueType : SingleIssueTypes, subIssue : {Undefined, SubPrimaryPAN},
     notes : {Undefined, NotesAll}, actionRequested : Actions]

InitMissing ==
    /\ cls \in [pc : {"in"}, formData : MissingInputs, result : {NoResult},
                 formData2 : {NoForm}, result2 : {NoResult}, log : {<< >>},
                 heap : {<< >>}]
    /\ fmt = IdleFormat
    /\ counter = AbsentCounter
    /\ submissions = {}
    /\ now = 0
    /\ client = [p \in Clients |-> IdleClient]
    /\ ncalls = 0
    /\ returned = << >>
    /\ gaps = {}
    /\ allocFailed = FALSE
    /\ purged = {}
    /\ initialValue = 0
    /\ FrontIdle

\* the form data with '' in the place of every missing field
Emptied(formData) ==
    [formData EXCEPT !.subIssue = IF @ = Undefined THEN << >> ELSE @,
                     !.notes = IF @ = Undefined THEN << >> ELSE @]

\* the same form is classified again with its missing fields set to ''
ClassifyEmptied ==
    /\ cls.pc = "out"
    /\ cls' = [cls EXCEPT !.pc = "outEmptied", !.formData2 = Emptied(cls.formData),
                          !.result2 = ProcessLoanIssueDecisionTree(Emptied(cls.formData))]
    /\ UNCHANGED <<fmt, Front, Store, client, ncalls, History>>

NextMissing == Classify \/ ClassifyEmptied

SpecMissing == InitMissing /\ [][NextMissing]_vars

\* the forms classified one after the other
CallInputs ==
    [issueType : {OptPanIssue, OptWrongDetails, OptOther}, subIssue : {Undefined},
     notes : {Undefined, NotesAll}, actionRequested : {ActRejectLead}]

InitCalls ==
    /\ cls = IdleClassifier
    /\ fmt = IdleFormat
    /\ counter = AbsentCounter
    /\ submissions = {}
    /\ now = 0
    /\ client = [p \in Clients |-> IdleClient]
    /\ ncalls = 0
    /\ returned = << >>
    /\ gaps = {}
    /\ allocFailed = FALSE
    /\ purged = {}
    /\ initialValue = 0
    /\ FrontIdle

\* variant: nextSteps is declared outside the function, so every call
\* pushes to the one array of the module and returns it
ClassifyCall_SharedSteps(formData) ==
    /\ Len(cls.log) < MaxClassifyCalls
    /\ LET r == ProcessLoanIssueDecisionTree(formData)
           nextSteps == 1
           pushed == IF cls.heap = << >> THEN <<r.nextSteps>>
                     ELSE [cls.heap EXCEPT ![nextSteps] = @ \o r.nextSteps]
       IN cls' = [cls EXCEPT
                    !.heap = pushed,
                    !.log = Append(cls.log,
                              [formData |-> formData,
                               result |-> [r EXCEPT !.nextSteps = nextSteps]])]
    /\ UNCHANGED <<fmt, Front, Store, client, ncalls, History>>

\* a call of processLoanIssueDecisionTree, with the arrays of the program
\* kept in cls.heap and named by their index: `const nextSteps = []` of
\* line 56 creates a new array, the branch taken pushes its steps to it,
\* and the object returned holds the array, not a copy; recommendedAction
\* and reason are strings, which are values. The caller keeps the object.
ClassifyCall(formData) ==
    /\ Len(cls.log) < MaxClassifyCalls
    /\ LET r == ProcessLoanIssueDecisionTree(formData)
           nextSteps == Len(cls.heap) + 1
           pushed == Append(cls.heap, r.nextSteps)
       IN cls' = [cls EXCEPT
                    !.heap = pushed,
                    !.log = Append(cls.log,
                              [formData |-> formData,
                               result |-> [r EXCEPT !.nextSteps = nextSteps]])]
    /\ UNCHANGED <<fmt, Front, Store, client, ncalls, History>>

NextCalls == \E formData \in CallInputs : ClassifyCall(formData)

SpecCalls == InitCalls /\ [][NextCalls]_vars

\* ================================================ LoanIssueFormPage.tsx
\* the page of the loan issue form: selections, validation, the submit
\* call with its awaits, the success screen
\* 'Verification Failed'
SubVerificationFailed ==
    <<"V", "e", "r", "i", "f", "i", "c", "a", "t", "i", "o", "n", " ", "F", "a", "i", "l",
      "e", "d">>

\* 'Duplicate PAN'
SubDuplicatePAN ==
    <<"D", "u", "p", "l", "i", "c", "a", "t", "e", " ", "P", "A", "N">>

\* 'Phone No Wrong'
SubPhoneNoWrong ==
    <<"P", "h", "o", "n", "e", " ", "N", "o", " ", "W", "r", "o", "n", "g">>

\* 'Property Type Wrong'
SubPropertyTypeWrong ==
    <<"P", "r", "o", "p", "e", "r", "t", "y", " ", "T", "y", "p", "e", " ", "W", "r", "o",
      "n", "g">>

\* 'Loan Type Wrong'
SubLoanTypeWrong ==
    <<"L", "o", "a", "n", " ", "T", "y", "p", "e", " ", "W", "r", "o", "n", "g">>

\* 'Account Aggregator'
SubAccountAggregator ==
    <<"A", "c", "c", "o", "u", "n", "t", " ", "A", "g", "g", "r", "e", "g", "a", "t", "o",
      "r">>

\* 'IMD'
SubIMD ==
    <<"I", "M", "D">>

\* 'Other'
WordOther ==
    <<"O", "t", "h", "e", "r">>

\* SUB_ISSUES_MAP[issueType], << >> for a type the map does not hold
SUB_ISSUES_MAP(issueType) ==
    IF issueType = OptPanIssue
    THEN <<SubMappingError, SubVerificationFailed, SubPrimaryPAN, SubDuplicatePAN>>
    ELSE IF issueType = OptWrongDetails
    THEN <<SubPhoneNoWrong, SubIncomeWrong, SubPropertyTypeWrong, SubLoanTypeWrong>>
    ELSE IF issueType = OptLinkExpired
    THEN <<SubAccountAggregator, SubIMD>>
    ELSE << >>

RECURSIVE Trim(_)
\* s.trim() for a text whose only white space is the blank
Trim(s) ==
    IF s = << >> THEN s
    ELSE IF Head(s) = " " THEN Trim(Tail(s))
    ELSE IF s[Len(s)] = " " THEN Trim(SubSeq(s, 1, Len(s) - 1))
    ELSE s

\* the effect that follows a change of formData.issueType: the sub issue
\* select is shown for a type with sub issues; otherwise it is hidden and
\* the sub issue is cleared
IssueTypeEffect(p) ==
    IF p.formData.issueType # << >> /\ Len(SUB_ISSUES_MAP(p.formData.issueType)) > 0
    THEN [p EXCEPT !.showSubIssue = TRUE]
    ELSE [p EXCEPT !.showSubIssue = FALSE, !.formData.subIssue = << >>]

\* if (success) return the success screen: the form is not rendered
FormShown == page.success = NoSuccess

\* handleInputChange for the field name, followed by the effect when the
\* issue type has changed
HandleInputChange(name, value) ==
    /\ FormShown
    /\ LET changed == [page EXCEPT !.formData = [@ EXCEPT ![name] = value]]
       IN page' = IF name = "issueType" /\ value # page.formData.issueType
                  THEN IssueTypeEffect(changed)
                  ELSE changed
    /\ UNCHANGED <<Pure, Store, client, ncalls, History, auth, drive, upload>>

\* the issue type select: 'Choose an option' or one of the options
SelectIssueType(issueType) == HandleInputChange("issueType", issueType)

\* the sub issue select is rendered when showSubIssue is set and offers
\* 'Choose an option' and the sub issues of the current issue type
SelectSubIssue(subIssue) ==
    /\ page.showSubIssue
    /\ \/ subIssue = << >>
       \/ \E i \in DOMAIN SUB_ISSUES_MAP(page.formData.issueType) :
             subIssue = SUB_ISSUES_MAP(page.formData.issueType)[i]
    /\ HandleInputChange("subIssue", subIssue)

SelectAction(actionRequested) == HandleInputChange("actionRequested", actionRequested)

TypeNotes(notes) == HandleInputChange("notes", notes)

\* entity, opportunity id, LSQ URL and name are filled in so that each
\* passes its validation
FillRequired == HandleInputChange("required", TRUE)

\* the validations of handleSubmit, each of which returns early
Valid ==
    /\ page.formData.required
    /\ page.formData.issueType # << >>
    /\ ~(page.showSubIssue /\ page.formData.subIssue = << >>)
    /\ page.formData.actionRequested # << >>
    /\ ~(Includes(page.formData.issueType, WordOther)
         /\ Trim(page.formData.notes) = << >>)
    /\ auth.role # NoRole

\* variant: the submit button stays enabled while a submit is in flight
SubmitEnabled_Always == TRUE

\* <button type="submit" disabled={isSubmitting}>
SubmitEnabled == ~page.isSubmitting

\* the locals of a handleSubmit call that has settled are dropped
Settled(call, pc) ==
    [call EXCEPT !.pc = pc, !.submissionData = InitialFormData,
                 !.decisionResult = NoResult, !.attachments = << >>]

\* the option the sub issue select displays: formData.subIssue when it is
\* among the options rendered for the current issue type, else the first
\* option, 'Choose an option', whose value is ''
DisplayedSubIssue ==
    IF \E i \in DOMAIN SUB_ISSUES_MAP(page.formData.issueType) :
          SUB_ISSUES_MAP(page.formData.issueType)[i] = page.formData.subIssue
    THEN page.formData.subIssue
    ELSE << >>

\* variant: the form does not validate its controls
ConstraintsSatisfied_NoValidate == TRUE

\* the required attributes of the controls of the form: the submit event
\* is fired only when every required control has a value
ConstraintsSatisfied ==
    /\ page.formData.required
    /\ page.formData.issueType # << >>
    /\ page.showSubIssue => DisplayedSubIssue # << >>
    /\ page.formData.actionRequested # << >>
    /\ Includes(page.formData.issueType, WordOther) => page.formData.notes # << >>

\* handleSubmit up to its first await: the validations pass, isSubmitting
\* is set, the decision tree is applied to a copy of the form data and
\* createLoanIssueSubmission awaits generateSubmissionId
HandleSubmit ==
    /\ Valid
    /\ Len(page.calls) < MaxSubmits
    /\ page' = [page EXCEPT
                  !.isSubmitting = TRUE,
                  !.uploadProgress = NoProgress,
                  !.calls = Append(@,
                      [pc |-> "allocate", submissionData |-> page.formData,
                       decisionResult |-> ProcessLoanIssueDecisionTree(page.formData),
                       role |-> auth.role, submissionId |-> NoId,
                       attachments |-> << >>, stored |-> << >>, allocs |-> 0,
                       writes |-> 0])]
    /\ UNCHANGED <<Pure, Store, client, ncalls, History, auth, drive, upload>>

\* <form onSubmit={handleSubmit}>: the form is rendered, its submit
\* button is enabled and its controls are valid
SubmitForm ==
    /\ FormShown
    /\ SubmitEnabled
    /\ ConstraintsSatisfied
    /\ HandleSubmit

\* ------------------------------------------------------- the attachments
FILE_SIZE_WARNING_MB == 100
FILE_SIZE_MAX_MB == 200

\* sizes of the files picked and pasted, in MB
FileSizes == {1, 60, 120}

RECURSIVE TotalSize(_)
\* files.reduce((sum, file) => sum + file.size, 0)
TotalSize(files) ==
    IF files = << >> THEN 0 ELSE Head(files).size + TotalSize(Tail(files))

\* validateTotalFileSize(files): valid and warning
ValidateTotalFileSize(files) ==
    IF TotalSize(files) > FILE_SIZE_MAX_MB THEN [valid |-> FALSE, warning |-> FALSE]
    ELSE IF TotalSize(files) >= FILE_SIZE_WARNING_MB THEN [valid |-> TRUE, warning |-> TRUE]
    ELSE [valid |-> TRUE, warning |-> FALSE]

\* processFiles(newFiles) of the render whose formData.attachmentFiles is
\* existing: the warning is cleared; a refused total leaves the list as
\* it is, an accepted one sets the warning and writes allFiles
ProcessFiles(p, existing, newFiles) ==
    LET allFiles == existing \o newFiles
        validation == ValidateTotalFileSize(allFiles)
    IN IF validation.valid
       THEN [p EXCEPT !.fileSizeWarning = validation.warning,
                      !.formData.attachmentFiles = allFiles]
       ELSE [p EXCEPT !.fileSizeWarning = FALSE]

\* a File object that did not exist before
NewFile(size) == [id |-> page.created + 1, size |-> size]

\* handleFileChange with one file chosen in the file picker, which the
\* form renders; the handler belongs to the current render
HandleFileChange(size) ==
    /\ FormShown
    /\ page.created < MaxPicked
    /\ page' = ProcessFiles([page EXCEPT !.created = @ + 1],
                            page.formData.attachmentFiles, <<NewFile(size)>>)
    /\ UNCHANGED <<Pure, Store, client, ncalls, History, auth, drive, upload>>

\* the paste listener, registered on the window by an effect without
\* dependencies, so it also runs while the success screen is shown: its
\* processFiles is the one of the first render, whose formData is the
\* initial form data
HandlePaste(size) ==
    /\ page.created < MaxPicked
    /\ page' = ProcessFiles([page EXCEPT !.created = @ + 1],
                            InitialFormData.attachmentFiles, <<NewFile(size)>>)
    /\ UNCHANGED <<Pure, Store, client, ncalls, History, auth, drive, upload>>

\* removeAttachment(fileToRemove) for the attachment at position i, whose
\* Remove button the form renders
RemoveAttachment(i) ==
    /\ FormShown
    /\ i \in DOMAIN page.formData.attachmentFiles
    /\ LET remainingFiles ==
               SelectSeq(page.formData.attachmentFiles,
                         LAMBDA f : f # page.formData.attachmentFiles[i])
       IN page' = [page EXCEPT
                     !.formData.attachmentFiles = remainingFiles,
                     !.fileSizeWarning = ValidateTotalFileSize(remainingFiles).warning]
    /\ UNCHANGED <<Pure, Store, client, ncalls, History, auth, drive, upload>>

\* the k for which the double (2k + 1) / 200 * 100 is smaller than k + 0.5:
\* the quotient is rounded to a double before it is multiplied, and for
\* these k the product falls below the half that the exact value is
HalvesBelow == {14, 28, 56, 57}

\* Math.round((n / total) * 100) for 0 <= n <= total, total > 0, in double
\* arithmetic: the exact value rounded half up, except where the exact
\* value is k + 0.5 and the double product is below it. Away from the
\* halves the double product is within 1 / (2 total) of the exact value.
RoundPercent(n, total) ==
    LET k == (100 * n) \div total
        half == (200 * n) % (2 * total) = total
    IN IF half /\ k \in HalvesBelow THEN k ELSE (200 * n + total) \div (2 * total)

\* the progress fileProgress hands to setUploadProgress while the file
\* that follows the attachments already pushed is uploaded: loaded is what
\* uploadFileToDrive reports for this file
FileProgress(call, loaded) ==
    LET filesToUpload == call.submissionData.attachmentFiles
        totalSize == TotalSize(filesToUpload)
        uploadedSoFar == TotalSize(SubSeq(filesToUpload, 1, Len(call.attachments)))
    IN [loaded |-> uploadedSoFar + loaded, total |-> totalSize,
        percentage |-> RoundPercent(uploadedSoFar + loaded, totalSize)]

\* the file the loop of the call is uploading
CurrentFile(call) == call.submissionData.attachmentFiles[Len(call.attachments) + 1]

\* await generateSubmissionId() resolves in the call k; with files to
\* upload the loop is entered and uploadFileToDrive reports loaded 0 and
\* awaits fileToBase64 for the first file, else setDoc is called
SubmitAllocate(k) ==
    /\ k \in DOMAIN page.calls
    /\ page.calls[k].pc = "allocate"
    /\ LET nextValue == NextValue(CurrentValue(counter))
           hasFiles == Len(page.calls[k].submissionData.attachmentFiles) > 0
       IN
         /\ counter' = [exists |-> TRUE, hasValue |-> TRUE, value |-> nextValue,
                        version |-> counter.version + 1]
         /\ page' = [page EXCEPT
                       !.uploadProgress =
                           IF hasFiles THEN FileProgress(page.calls[k], 0) ELSE @,
                       !.calls[k].pc = IF hasFiles THEN "readFile" ELSE "setDoc",
                       !.calls[k].submissionId = FormatId(nextValue),
                       !.calls[k].allocs = @ + 1]
    /\ UNCHANGED <<Pure, submissions, now, client, ncalls, History, auth, drive, upload>>

\* await fileToBase64(file) resolves: the whole file is reported as loaded
\* and the request is sent to uploadToDrive
SubmitReadFile(k) ==
    /\ k \in DOMAIN page.calls
    /\ page.calls[k].pc = "readFile"
    /\ page' = [page EXCEPT
                  !.uploadProgress =
                      FileProgress(page.calls[k], CurrentFile(page.calls[k]).size),
                  !.calls[k].pc = "fetch"]
    /\ UNCHANGED <<Pure, Store, client, ncalls, History, auth, drive, upload>>

\* await fetch(functionUrl) resolves: with response.ok the file is in Drive
\* and the body of the response is awaited; a response that is not ok,
\* which the function may send after it has stored the file, has its body
\* read before the error is thrown
SubmitFetch(k, ok, stored) ==
    /\ k \in DOMAIN page.calls
    /\ page.calls[k].pc = "fetch"
    /\ ok => stored
    /\ page' = [page EXCEPT
                  !.calls[k].pc = IF ok THEN "json" ELSE "errorBody",
                  !.calls[k].stored =
                      IF stored THEN Append(@, CurrentFile(page.calls[k])) ELSE @]
    /\ UNCHANGED <<Pure, Store, client, ncalls, History, auth, drive, upload>>

\* await response.json() resolves: the result is returned and pushed to
\* attachments; the loop goes on with the next file, for which loaded 0 is
\* reported, or setDoc is called after the last one
SubmitJson(k) ==
    /\ k \in DOMAIN page.calls
    /\ page.calls[k].pc = "json"
    /\ LET pushed == [page.calls[k] EXCEPT
                         !.attachments = Append(@, CurrentFile(page.calls[k]))]
           last == Len(pushed.attachments) = Len(pushed.submissionData.attachmentFiles)
       IN page' = [page EXCEPT
                     !.uploadProgress = FileProgress(pushed, 0),
                     !.calls[k] = [pushed EXCEPT
                                      !.pc = IF last THEN "setDoc" ELSE "readFile"]]
    /\ UNCHANGED <<Pure, Store, client, ncalls, History, auth, drive, upload>>

\* the submission document built at lines 192-219 from data, role and
\* decisionResult
LoanIssueDocument(call) ==
    [id |-> call.submissionId, formType |-> "loan_issue",
     issueType |-> call.submissionData.issueType,
     subIssue |-> call.submissionData.subIssue,
     actionRequested |-> call.submissionData.actionRequested,
     detailedActionable |-> OrEmpty(call.submissionData.notes),
     attachments |-> call.attachments,
     recommendedAction |-> call.decisionResult.recommendedAction,
     reason |-> call.decisionResult.reason,
     nextSteps |-> call.decisionResult.nextSteps,
     submittedBy |-> call.role, submittedAt |-> now]

\* variant: the success screen shows the decision for the form as it is
\* when the call returns
Shown_FromCurrentForm(call) ==
    [submissionId |-> call.submissionId,
     decisionResult |-> ProcessLoanIssueDecisionTree(page.formData)]

\* setSuccess({ submissionId, decisionResult })
Shown(call) ==
    [submissionId |-> call.submissionId, decisionResult |-> call.decisionResult]

\* await setDoc resolves, createLoanIssueSubmission returns the id, the
\* success screen is set and the finally block clears isSubmitting
SubmitSetDoc(k) ==
    /\ k \in DOMAIN page.calls
    /\ page.calls[k].pc = "setDoc"
    /\ submissions' = SetDocument(submissions, LoanIssueDocument(page.calls[k]))
    /\ page' = [page EXCEPT
                  !.isSubmitting = FALSE,
                  !.uploadProgress = NoProgress,
                  !.success = Shown(page.calls[k]),
                  !.calls[k] = Settled([@ EXCEPT !.writes = @ + 1], "done")]
    /\ UNCHANGED <<Pure, counter, now, client, ncalls, History, auth, drive, upload>>

\* the positions of a handleSubmit call that has not settled
Awaiting == {"allocate", "readFile", "fetch", "json", "errorBody", "setDoc"}

\* an await of createLoanIssueSubmission rejects (id allocation, reading
\* the file, the request, the body of its response, setDoc) or the body of
\* a response that is not ok has been read: the error is thrown, the catch
\* block shows a toast, finally clears isSubmitting and the progress
SubmitFail(k) ==
    /\ k \in DOMAIN page.calls
    /\ page.calls[k].pc \in Awaiting
    /\ page' = [page EXCEPT !.isSubmitting = FALSE,
                            !.uploadProgress = NoProgress,
                            !.calls[k] = Settled(@, "failed")]
    /\ UNCHANGED <<Pure, Store, client, ncalls, History, auth, drive, upload>>

\* handleSubmitAnother: the form is reset and shown again
HandleSubmitAnother ==
    /\ page.success # NoSuccess
    /\ page' = [page EXCEPT !.formData = InitialFormData,
                            !.success = NoSuccess, !.showSubIssue = FALSE,
                            !.fileSizeWarning = FALSE]
    /\ UNCHANGED <<Pure, Store, client, ncalls, History, auth, drive, upload>>

\* the provider of a user who has logged in with the role r
SignedIn(r) ==
    [role |-> r, isAuthenticated |-> TRUE, loading |-> FALSE, storage |-> r,
     location |-> "/submissions", result |-> "true", reloads |-> 0]

\* everything but the page, for the specifications of the page
BackIdle ==
    /\ fmt = IdleFormat
    /\ cls = IdleClassifier
    /\ counter = AbsentCounter
    /\ submissions = {}
    /\ now = 0
    /\ client = [p \in Clients |-> IdleClient]
    /\ ncalls = 0
    /\ returned = << >>
    /\ gaps = {}
    /\ allocFailed = FALSE
    /\ purged = {}
    /\ initialValue = 0

\* ------------------------------------------------- the submit flow alone
\* forms that are filled in when the behaviour starts
SubmitForms ==
    {[InitialFormData EXCEPT !.required = TRUE, !.issueType = t, !.notes = n,
                             !.actionRequested = ActRejectLead, !.attachmentFiles = f] :
        t \in {OptSwapping, OptOther}, n \in {NotesPlain},
        f \in {<< >>, <<[id |-> 1, size |-> 1], [id |-> 2, size |-> 60]>>,
               <<[id |-> 1, size |-> 23], [id |-> 2, size |-> 17]>>}}

\* what the user changes while the form is open
EditedTypes == {OptSwapping, OptNotInterested}
EditedNotes == {<<" ">>, NotesPrimary}

InitSubmit ==
    /\ page \in {[InitialPage EXCEPT !.formData = f, !.created = Len(f.attachmentFiles)] :
                  f \in SubmitForms}
    /\ auth = SignedIn("product_support")
    /\ drive = InitialDrive
    /\ upload = IdleUpload
    /\ BackIdle

NextSubmit ==
    \/ \E t \in EditedTypes : SelectIssueType(t)
    \/ \E n \in EditedNotes : TypeNotes(n)
    \/ RemoveAttachment(1)
    \/ SubmitForm
    \/ \E k \in 1..MaxSubmits : SubmitAllocate(k)
    \/ \E k \in 1..MaxSubmits : SubmitReadFile(k)
    \/ \E k \in 1..MaxSubmits, ok \in BOOLEAN, stored \in BOOLEAN : SubmitFetch(k, ok, stored)
    \/ \E k \in 1..MaxSubmits : SubmitJson(k)
    \/ \E k \in 1..MaxSubmits : SubmitSetDoc(k)
    \/ \E k \in 1..MaxSubmits : SubmitFail(k)
    \/ HandleSubmitAnother

SpecSubmit == InitSubmit /\ [][NextSubmit]_vars

\* --------------------------------------------- selections, then a submit
\* the issue types selected: two with sub issues, one without, none
SelectedTypes == {<< >>, OptPanIssue, OptWrongDetails, OptSwapping}

\* every value a sub issue select can offer
SubIssueOptions ==
    {<< >>} \cup UNION {{SUB_ISSUES_MAP(t)[i] : i \in DOMAIN SUB_ISSUES_MAP(t)} :
                          t \in SelectedTypes}

\* the page as it is mounted, opened by a user who has logged in
InitSelect ==
    /\ page = InitialPage
    /\ auth = SignedIn("product_support")
    /\ drive = InitialDrive
    /\ upload = IdleUpload
    /\ BackIdle

NextSelect ==
    \/ FillRequired
    \/ \E t \in SelectedTypes : SelectIssueType(t)
    \/ \E sub \in SubIssueOptions : SelectSubIssue(sub)
    \/ SelectAction(ActRejectLead)
    \/ SubmitForm
    \/ \E k \in 1..MaxSubmits : SubmitAllocate(k)
    \/ \E k \in 1..MaxSubmits : SubmitSetDoc(k)
    \/ \E k \in 1..MaxSubmits : SubmitFail(k)

SpecSelect == InitSelect /\ [][NextSelect]_vars

\* ------------------------------------------- the attachments taken alone
NextAttach ==
    \/ \E size \in FileSizes : HandleFileChange(size)
    \/ \E size \in FileSizes : HandlePaste(size)
    \/ \E i \in 1..MaxPicked : RemoveAttachment(i)

SpecAttach == InitSelect /\ [][NextAttach]_vars

\* ================================================= SimpleAuthContext.tsx
\* the provider's state, localStorage under STORAGE_KEY and the route shown
HARDCODED_PASSWORD == "1111"

\* type UserRole
UserRole == {"product_support", "tech_support_team", "sm"}

\* the roles the login page offers
LoginPageRoles == {"sales_manager", "product_support"}

\* the roles login is called with
LoginRoles == UserRole \cup LoginPageRoles

\* the passwords typed: the right one and a wrong one
Passwords == {HARDCODED_PASSWORD, "0000"}

\* a stored item that JSON.parse rejects
Corrupt == "not JSON"

\* the routes of AppRoutes and the allowedRoles of the protected ones
Paths == {"/login", "/submit", "/submissions", "/submissions/:id"}

AllowedRoles(path) == IF path = "/submit" THEN {"sales_manager"} ELSE {"product_support"}

\* variant: the route checks the authentication only
ProtectedRoute_AuthenticatedOnly(a, allowedRoles) ==
    IF ~a.isAuthenticated THEN "/login" ELSE "children"

\* ProtectedRoute: what it renders for the provider state a
ProtectedRoute(a, allowedRoles) ==
    IF ~a.isAuthenticated THEN "/login"
    ELSE IF a.role # NoRole /\ a.role \notin allowedRoles THEN "/login"
    ELSE "children"

\* the routes are rendered once the provider has left its loading state:
\* a protected route that does not render its children navigates to /login
Rendered(a) ==
    IF a.loading \/ a.location = "/login" THEN a
    ELSE IF ProtectedRoute(a, AllowedRoles(a.location)) = "children" THEN a
    ELSE [a EXCEPT !.location = "/login"]

\* variant: every stored role is restored
Restorable_Any(storedRole) == TRUE

\* storedRole === 'sales_manager' || storedRole === 'product_support'
Restorable(storedRole) == storedRole = "sales_manager" \/ storedRole = "product_support"

\* the mount effect: the stored role is restored, an item that does not
\* parse is removed, loading ends
Mount ==
    /\ auth.loading
    /\ auth' = Rendered(
         IF auth.storage = NoItem THEN [auth EXCEPT !.loading = FALSE]
         ELSE IF auth.storage = Corrupt
              THEN [auth EXCEPT !.loading = FALSE, !.storage = NoItem]
         ELSE IF Restorable(auth.storage)
              THEN [auth EXCEPT !.loading = FALSE, !.role = auth.storage,
                                !.isAuthenticated = TRUE]
         ELSE [auth EXCEPT !.loading = FALSE])
    /\ UNCHANGED <<Pure, Store, client, ncalls, History, page, drive, upload>>

\* handleSubmit of the login page: login(selectedRole, password), then
\* navigate to the page of the role when it returned true
Login(selectedRole, password) ==
    /\ ~auth.loading
    /\ auth.location = "/login"
    /\ auth' = Rendered(
         IF password = HARDCODED_PASSWORD
         THEN [auth EXCEPT !.role = selectedRole, !.isAuthenticated = TRUE,
                           !.storage = selectedRole, !.result = "true",
                           !.location = IF selectedRole = "sales_manager"
                                        THEN "/submit" ELSE "/submissions"]
         ELSE [auth EXCEPT !.result = "false"])
    /\ UNCHANGED <<Pure, Store, client, ncalls, History, page, drive, upload>>

\* logout(): the role, the authentication and the stored item are
\* removed, whatever the state was
Logout(a) == [a EXCEPT !.role = NoRole, !.isAuthenticated = FALSE, !.storage = NoItem]

\* handleLogout of Layout: the Logout button is part of Layout, which the
\* routes render only as the children of a ProtectedRoute; the route then
\* navigates to /login
HandleLogout ==
    /\ ~auth.loading
    /\ auth.location # "/login"
    /\ ProtectedRoute(auth, AllowedRoles(auth.location)) = "children"
    /\ auth' = Rendered(Logout(auth))
    /\ UNCHANGED <<Pure, Store, client, ncalls, History, page, drive, upload>>

\* the user opens the path in the address bar of the running application
Navigate(path) ==
    /\ ~auth.loading
    /\ auth' = Rendered([auth EXCEPT !.location = path])
    /\ UNCHANGED <<Pure, Store, client, ncalls, History, page, drive, upload>>

\* page reload or new browser session: the provider is mounted again,
\* localStorage and the address are kept
Reload ==
    /\ auth.reloads < MaxReloads
    /\ auth' = [InitialAuth EXCEPT !.storage = auth.storage, !.location = auth.location,
                                   !.reloads = auth.reloads + 1]
    /\ UNCHANGED <<Pure, Store, client, ncalls, History, page, drive, upload>>

\* a browser without stored authentication, with the item an earlier
\* session has stored or with an item that does not parse
InitAuth ==
    /\ auth \in {[InitialAuth EXCEPT !.storage = item, !.location = path] :
                    item \in {NoItem, Corrupt} \cup LoginRoles, path \in Paths}
    /\ page = InitialPage
    /\ drive = InitialDrive
    /\ upload = IdleUpload
    /\ BackIdle

NextAuth ==
    \/ Mount
    \/ \E selectedRole \in LoginRoles, password \in Passwords : Login(selectedRole, password)
    \/ HandleLogout
    \/ \E path \in Paths : Navigate(path)
    \/ Reload

SpecAuth == InitAuth /\ [][NextAuth]_vars

\* ===================== uploadToDrive requests and the purge taken together
InitDrive ==
    /\ drive = InitialDrive
    /\ page = InitialPage
    /\ auth = InitialAuth
    /\ upload = IdleUpload
    /\ BackIdle

NextDrive ==
    \/ \E r \in 1..NumRequests, submissionId \in SubmissionIds :
          RequestArrives(r, submissionId)
    \/ \E r \in 1..NumRequests : ListFolders(r)
    \/ \E r \in 1..NumRequests : CreateFolder(r)
    \/ \E r \in 1..NumRequests : UploadFile(r)
    \/ \E r \in 1..NumRequests : SetPermissions(r)
    \/ \E r \in 1..NumRequests : RequestFails(r)
    \/ Tick
    \/ PurgeStarts
    \/ PurgeListMain
    \/ PurgeCreateMain
    \/ PurgeListOld
    \/ \E id \in drive.purge.pending, deleted \in BOOLEAN : PurgeDeleteOld(id, deleted)
    \/ PurgeListFolders
    \/ \E id \in drive.purge.pending : PurgeListContents(id)
    \/ \E deleted \in BOOLEAN : PurgeDeleteFolder(deleted)
    \/ PurgeGet
    \/ PurgeCommit
    \/ PurgeFails

SpecDrive == InitDrive /\ [][NextDrive]_vars

\* ========================================== driveUpload, resumableUpload
\* Sizes and offsets are counted in units of 2.5 MiB.
CHUNK_SIZE == 2

\* the result of parseInt for a text that does not start with a number;
\* every comparison with it is false
NaN == -1

\* a < b of JavaScript numbers
Less(a, b) == a # NaN /\ b # NaN /\ a < b

\* a + 1
Succ(a) == IF a = NaN THEN NaN ELSE a + 1

\* Math.min(a, b)
Min(a, b) == IF a < b THEN a ELSE b

\* the statuses the server answers a PUT with
Statuses == {200, 201, 308, 500}

\* the Range header of a 308 response: absent, or a last byte, or a text
\* that parseInt cannot read
NoRange == -2
Ranges == {NoRange, NaN} \cup (0..MaxSize)

\* files larger than CHUNK_SIZE: uploadFileToDrive sends them to
\* resumableUpload
UploadSizes == (CHUNK_SIZE + 1)..MaxSize

\* the response to the request that opens the session: the call throws
\* when it is not ok or carries no Location, else it enters the loop with
\* uploadedBytes = 0
InitResponse(ok, location) ==
    /\ upload.pc = "init"
    /\ upload' = IF ok /\ location
                 THEN [upload EXCEPT !.pc = "loop", !.uploadedBytes = 0]
                 ELSE [upload EXCEPT !.pc = "thrown"]
    /\ UNCHANGED <<Pure, Store, client, ncalls, History, page, auth, drive>>

\* while (uploadedBytes < file.size): the next chunk is cut and its PUT
\* is sent with Content-Range bytes uploadedBytes-(chunkEnd - 1)/file.size
SendChunk ==
    /\ upload.pc = "loop"
    /\ Less(upload.uploadedBytes, upload.size)
    /\ upload' = [upload EXCEPT
                    !.pc = "put",
                    !.chunkEnd = Min(upload.uploadedBytes + CHUNK_SIZE, upload.size)]
    /\ UNCHANGED <<Pure, Store, client, ncalls, History, page, auth, drive>>

\* the loop ends without a 200 or 201: 'Upload failed: unexpected end of
\* upload' is thrown
LoopExit ==
    /\ upload.pc = "loop"
    /\ ~Less(upload.uploadedBytes, upload.size)
    /\ upload' = [upload EXCEPT !.pc = "thrown"]
    /\ UNCHANGED <<Pure, Store, client, ncalls, History, page, auth, drive>>

\* uploadedBytes after a 308 response: the last byte of the Range header
\* plus one, or chunkEnd when the header is absent
NextOffset(range, chunkEnd) == IF range # NoRange THEN Succ(range) ELSE chunkEnd

\* the response to a PUT: after a 200 or 201 the call awaits the body of
\* the response, a 308 moves the offset and reports the progress, every
\* other status throws
ChunkResponse(status, range) ==
    /\ upload.pc = "put"
    /\ upload' =
         IF status = 200 \/ status = 201
         THEN [upload EXCEPT !.pc = "json", !.status = status]
         ELSE IF status = 308
         THEN [upload EXCEPT !.pc = "loop", !.status = status,
                             !.uploadedBytes = NextOffset(range, upload.chunkEnd),
                             !.loaded = NextOffset(range, upload.chunkEnd)]
         ELSE [upload EXCEPT !.pc = "thrown", !.status = status]
    /\ UNCHANGED <<Pure, Store, client, ncalls, History, page, auth, drive>>

\* the body of a 200 or 201 response: a JSON object with the id of the
\* file, another JSON value that has properties, the JSON value null, a
\* text that is not JSON
Bodies == {"file", "value", "null", "text"}

\* await chunkResponse.json() settles. A text that is not JSON rejects
\* and the call throws. Otherwise the whole file is reported as loaded and
\* result.id is evaluated: it throws a TypeError for null and is returned
\* for every other value, undefined when the value has no id.
ChunkJson(body) ==
    /\ upload.pc = "json"
    /\ upload' =
         IF body = "text" THEN [upload EXCEPT !.pc = "thrown"]
         ELSE IF body = "null" THEN [upload EXCEPT !.pc = "thrown", !.loaded = upload.size]
         ELSE [upload EXCEPT !.pc = "returned", !.loaded = upload.size,
                             !.id = IF body = "file" THEN "id" ELSE "undefined"]
    /\ UNCHANGED <<Pure, Store, client, ncalls, History, page, auth, drive>>

\* resumableUpload has sent the request that opens the session
InitUpload ==
    /\ upload \in {[IdleUpload EXCEPT !.pc = "init", !.size = size] : size \in UploadSizes}
    /\ page = InitialPage
    /\ auth = InitialAuth
    /\ drive = InitialDrive
    /\ BackIdle

NextUpload ==
    \/ \E ok \in BOOLEAN, location \in BOOLEAN : InitResponse(ok, location)
    \/ SendChunk
    \/ LoopExit
    \/ \E status \in Statuses, range \in Ranges : ChunkResponse(status, range)
    \/ \E body \in Bodies : ChunkJson(body)

SpecUpload == InitUpload /\ [][NextUpload]_vars

\* the client goes on and the server answers every request
SpecUploadFair == SpecUpload /\ WF_vars(NextUpload)

\* ---------------------------------------------------------------- properties
\* ids under which a document is or was in the collection
EverWritten == Ids(submissions) \cup purged

\* the step in which the allocation of p's create call fails
AllocationFails(p) == client[p].stage # "allocate" /\ client'[p].stage = "allocate"

\* C1: concurrent allocations never return the same integer, whatever the
\* interleaving of the reads, commits and retries of their transactions.
C1_DistinctIntegers ==
    /\ \A i, j \in DOMAIN returned : i # j => returned[i].val # returned[j].val
    /\ \A p, q \in Clients :
         p # q /\ client[p].id # NoId /\ client[q].id # NoId => client[p].id # client[q].id

\* two allocations succeeded, one of them on a retry after a conflict
C1_Witness ==
    /\ Len(returned) >= 2
    /\ \E p \in Clients : client[p].attempts >= 2 /\ client[p].id # NoId

\* C2: starting from counter value c, the k-th allocation to commit returns
\* c + k, and the stored counter is c plus the number of commits.
C2_ConsecutiveFromStart ==
    /\ \A k \in DOMAIN returned : returned[k].val = initialValue + k
    /\ CurrentValue(counter) = initialValue + Len(returned)

C2_Witness ==
    /\ initialValue = 9998
    /\ Len(returned) = 3
    /\ returned[3].val = 10001
    /\ counter.value = 10001

\* C3: when the counter transaction fails the create call rejects at once:
\* the counter and the collection are as before, it has no id, has sent no
\* upload request and has written no document.
C3_AllocationFailureStops ==
    [][\A p \in Clients :
         /\ client'[p].stage = "allocate" =>
              /\ client'[p].pc = "failed"
              /\ client'[p].id = NoId
              /\ client'[p].sent = 0
              /\ client'[p].attachments = << >>
              /\ client'[p].writes = 0
         /\ AllocationFails(p) =>
              /\ client[p].id = NoId
              /\ client[p].sent = 0
              /\ client[p].writes = 0
              /\ counter' = counter
              /\ submissions' = submissions]_vars

\* a create call was rejected by its allocation while another client,
\* whose allocation succeeded, is uploading
C3_Witness ==
    \E p, q \in Clients :
        /\ client[p].pc = "failed"
        /\ client[p].stage = "allocate"
        /\ client[q].pc = "uploading"

\* C4: when an upload fails after the allocation the create call rejects
\* without writing; no document ever carries that id, the counter keeps the
\* value and later allocations are larger.
C4_UploadFailureLeavesGap ==
    /\ \A p \in Clients :
         client[p].stage = "upload" => client[p].pc = "failed" /\ client[p].writes = 0
    /\ \A g \in gaps :
         /\ FormatId(g) \notin EverWritten
         /\ CurrentValue(counter) >= g
         /\ \A i, j \in DOMAIN returned :
              i < j /\ returned[i].val = g => returned[j].val > g

\* after a gap, a later call wrote its document under a larger integer
C4_Witness ==
    \E g \in gaps, i \in DOMAIN returned :
        returned[i].val > g /\ FormatId(returned[i].val) \in Ids(submissions)

\* C5: inside one create call the id comes first, then the uploads one at a
\* time, each tagged with the id, then the single write of the document.
C5_CreateOrder ==
    [][\A p \in Clients :
         /\ client'[p].sent > client[p].sent =>
              /\ client[p].id # NoId
              /\ client'[p].tag = client[p].id
              /\ client[p].pc # "uploading"
              /\ client[p].sent = Len(client[p].attachments)
              /\ client[p].writes = 0
         /\ client'[p].writes > client[p].writes =>
              /\ client[p].id # NoId
              /\ client[p].pc # "uploading"
              /\ Len(client[p].attachments) = client[p].nfiles
              /\ client[p].sent = client[p].nfiles
              /\ client[p].writes = 0
              /\ \E d \in submissions' :
                   d.id = client[p].id /\ d.attachments = client[p].attachments
         /\ client'[p].pc = "done" => client'[p].writes = 1]_vars

\* a call has returned after writing a document with two attachments
C5_Witness ==
    \E p \in Clients :
        /\ client[p].pc = "done"
        /\ client[p].writes = 1
        /\ \E d \in submissions : d.id = client[p].id /\ d.attachments = <<1, 2>>

\* C6: the counter document is never deleted and its value never decreases,
\* also when the purge deletes submissions; every integer returned so far is
\* at most the counter, and a new one is larger than all of them.
C6_CounterNeverGoesBack ==
    [][/\ counter.exists => counter'.exists
       /\ CurrentValue(counter') >= CurrentValue(counter)
       /\ \A i \in DOMAIN returned' : returned'[i].val <= CurrentValue(counter')
       /\ Len(returned') > Len(returned) =>
            \A i \in DOMAIN returned : returned[i].val < returned'[Len(returned')].val]_vars

\* an allocation made after the purge has deleted documents
C6_Witness ==
    \E i \in DOMAIN returned : i >= 2 /\ returned[i].afterPurge

\* C7 as stated: a created submission document stays in the store for ever.
C7_NeverDeleted == [][\A d \in submissions : d \in submissions']_vars

\* C7 amended: a created submission document is never modified; it stays in
\* the store until the purge deletes it, which happens only once it was
\* submitted more than 14 days ago.
C7_KeptUntilPurged ==
    [][\A d \in submissions :
         \/ d \in submissions'
         \/ /\ now - d.submittedAt > PurgeAgeDays
            /\ d.id \notin Ids(submissions')
            /\ client' = client]_vars

\* the purge has deleted an old document and a younger one is in the store
C7_Witness ==
    /\ purged # {}
    /\ \E d \in submissions : d.submittedAt > 0

\* C8: a failed allocation leaves the counter as it was, so the successful
\* ones stay consecutive across any failures in between.
C8_RetrySafe ==
    [][/\ \A i \in 1..(Len(returned') - 1) : returned'[i + 1].val = returned'[i].val + 1
       /\ \A p \in Clients :
            AllocationFails(p) => counter' = counter /\ returned' = returned]_vars

\* a success, then a failed allocation, then a success
C8_Witness ==
    \E i \in 1..(Len(returned) - 1) : ~returned[i].afterFail /\ returned[i + 1].afterFail

\* C9: the first allocation against a store without counter, or with a
\* counter whose value is missing or 0, returns SUB-0001 and stores value 1.
C9_FirstId ==
    [][\A p \in Clients :
         /\ client[p].id = NoId
         /\ client'[p].id # NoId
         /\ (~counter.exists \/ ~counter.hasValue \/ counter.value = 0)
         => /\ client'[p].id = <<"S", "U", "B", "-", "0", "0", "0", "1">>
            /\ counter'.exists /\ counter'.hasValue /\ counter'.value = 1]_vars

C9_Witness ==
    /\ initialValue = 0
    /\ FrontIdle
    /\ counter.exists /\ counter.hasValue /\ counter.value = 1
    /\ \E p \in Clients : client[p].id = <<"S", "U", "B", "-", "0", "0", "0", "1">>

\* p's create call is waiting for generateSubmissionId
Allocating(p) == client[p].pc \in {"allocate", "txCommit"}

\* C11: with a store that answers, every allocation that has started ends,
\* whatever the other clients do: it returns an id or it fails.
C11_AllocateCompletes ==
    \A p \in Clients :
        Allocating(p) ~> (client[p].id # NoId \/ client[p].pc = "failed")

\* one call got its id on its last attempt while another call has failed
C11_Witness ==
    \E p, q \in Clients :
        /\ client[p].pc = "failed" /\ client[p].stage = "allocate"
        /\ client[q].id # NoId /\ client[q].attempts = MaxAttempts

\* number of decimal digits of an integer below 100000
NumDigits(k) ==
    IF k < 10 THEN 1 ELSE IF k < 100 THEN 2 ELSE IF k < 1000 THEN 3
    ELSE IF k < 10000 THEN 4 ELSE 5

DigitValue(c) == CHOOSE d \in 0..9 : DigitChars[d + 1] = c

RECURSIVE ParseDecimal(_)
ParseDecimal(s) ==
    IF s = << >> THEN 0
    ELSE ParseDecimal(SubSeq(s, 1, Len(s) - 1)) * 10 + DigitValue(s[Len(s)])

\* id is SUB- followed by the digits of k, zero-padded to at least 4
WellFormedId(k, id) ==
    /\ Len(id) = 4 + (IF NumDigits(k) > 4 THEN NumDigits(k) ELSE 4)
    /\ SubSeq(id, 1, 4) = <<"S", "U", "B", "-">>
    /\ \A i \in 5..Len(id) : \E d \in 1..10 : id[i] = DigitChars[d]
    /\ ParseDecimal(SubSeq(id, 5, Len(id))) = k

\* C10: the id of k >= 1 is SUB- and the decimal digits of k, padded with
\* zeros to at least 4 digits and never truncated; distinct integers give
\* distinct ids.
C10_Formatting ==
    fmt.pc = "out" =>
        /\ WellFormedId(fmt.k1, fmt.id1)
        /\ WellFormedId(fmt.k2, fmt.id2)
        /\ fmt.k1 # fmt.k2 => fmt.id1 # fmt.id2
        /\ fmt.k1 = 1 => fmt.id1 = <<"S", "U", "B", "-", "0", "0", "0", "1">>
        /\ fmt.k1 = 9999 => fmt.id1 = <<"S", "U", "B", "-", "9", "9", "9", "9">>
        /\ fmt.k1 = 10000 => fmt.id1 = <<"S", "U", "B", "-", "1", "0", "0", "0", "0">>

C10_Witness ==
    /\ fmt.pc = "out"
    /\ fmt.k1 = 9999 /\ fmt.id1 = <<"S", "U", "B", "-", "9", "9", "9", "9">>
    /\ fmt.k2 = 10000 /\ fmt.id2 = <<"S", "U", "B", "-", "1", "0", "0", "0", "0">>

\* ------------------------------------------- properties of the decision tree
\* the form has been classified
Classified == cls.pc \in {"out", "out2"}

NoKeyword(issueType) == \A k \in Keywords : ~Includes(issueType, k)

\* the text appended to the reason when the requested action a is overridden
OverrideNote(a) ==
    <<" ", "(", "O", "v", "e", "r", "r", "i", "d", "d", "e", "n", " ", "f", "r", "o", "m",
      " ", "r", "e", "q", "u", "e", "s", "t", "e", "d", ":", " ">> \o a \o <<")">>

\* the notes as the table reads them: missing notes are empty, letter case
\* is ignored
NotesHave(formData, word) ==
    \E i \in 0..(Len(OrEmpty(formData.notes)) - Len(word)) :
        \A j \in 1..Len(word) : LowerChar(OrEmpty(formData.notes)[i + j]) = word[j]

\* C12 as stated: an issue type without keyword gives Manual Review, the
\* reason 'Unclassified issue.' and the single step 'Escalate to support team.'
C12_UnclassifiedExact ==
    Classified /\ NoKeyword(cls.formData.issueType) =>
        /\ cls.result.recommendedAction = ActManualReview
        /\ cls.result.reason = ReasonOther
        /\ cls.result.nextSteps = <<StepEscalateSupport>>

\* C12 amended: an issue type without keyword gives Manual Review and the
\* single step 'Escalate to support team.'; the reason is 'Unclassified
\* issue.' when Manual Review was requested, and that text followed by the
\* override note for every other requested action.
C12_UnclassifiedOverridden ==
    Classified /\ NoKeyword(cls.formData.issueType) =>
        /\ cls.result.recommendedAction = ActManualReview
        /\ cls.result.nextSteps = <<StepEscalateSupport>>
        /\ cls.result.reason =
             IF cls.formData.actionRequested = ActManualReview
             THEN ReasonOther
             ELSE ReasonOther \o OverrideNote(cls.formData.actionRequested)

\* the option Other of the form, classified with an action of the form
C12_Witness ==
    /\ cls.pc = "out"
    /\ cls.formData.issueType = OptOther
    /\ cls.formData.actionRequested = ActMoveToCPATray
    /\ cls.result.recommendedAction = ActManualReview
    /\ cls.result.reason = ReasonOther \o OverrideNote(ActMoveToCPATray)

\* the rows of the decision table, in its order: the keywords of the row,
\* its fixed reason, the actions and the lists of steps it can give
TableRows ==
    <<[keys |-> {KwPanIssue}, reason |-> ReasonPan,
       actions |-> {ActRejectLead, ActResolveMapping},
       steps |-> {<<StepRelogin, StepCheckMapping>>}],
      [keys |-> {KwSwapping}, reason |-> ReasonSwapping,
       actions |-> {ActRejectLead},
       steps |-> {<<StepAddEntity, StepUpdateOpportunity>>}],
      [keys |-> {KwWrongDetails}, reason |-> ReasonWrongDetails,
       actions |-> {ActReopenTask},
       steps |-> {<<StepChangeIncome, StepReopenTask>>, <<StepReopenTask>>}],
      [keys |-> {KwSystemIssueUI}, reason |-> ReasonSystemIssueUI,
       actions |-> {ActNoAction, ActRejectLead},
       steps |-> {<<StepClearCache, StepEscalateTech>>}],
      [keys |-> {KwLinkExpired}, reason |-> ReasonLinkExpired,
       actions |-> {ActGenerateNewLink},
       steps |-> {<<StepRegenerateLink>>}],
      [keys |-> {KwReloginRequest, KwOldCase}, reason |-> ReasonOldCase,
       actions |-> {ActRejectLead},
       steps |-> {<<StepPullCibil>>}],
      [keys |-> {KwNotInterested}, reason |-> ReasonNotInterested,
       actions |-> {ActRejectLead},
       steps |-> {<<StepMarkClosed>>}],
      [keys |-> {KwBTTopup}, reason |-> ReasonBTTopup,
       actions |-> {ActReopenTask},
       steps |-> {<<StepUpdateLoanType>>}],
      [keys |-> {}, reason |-> ReasonOther,
       actions |-> {ActManualReview},
       steps |-> {<<StepEscalateSupport>>}]>>

RowMatches(i, issueType) ==
    i = Len(TableRows) \/ \E k \in TableRows[i].keys : Includes(issueType, k)

\* the earliest row of the table that matches; the last row matches all
Row(issueType) ==
    CHOOSE i \in DOMAIN TableRows :
        /\ RowMatches(i, issueType)
        /\ \A j \in 1..(i - 1) : ~RowMatches(j, issueType)

\* the reason a call must return for form data and the action it recommends
ExpectedReason(formData, recommendedAction) ==
    IF recommendedAction # formData.actionRequested
    THEN TableRows[Row(formData.issueType)].reason \o OverrideNote(formData.actionRequested)
    ELSE TableRows[Row(formData.issueType)].reason

\* C13: the reason is the fixed text of the row, followed by the override
\* note exactly when the recommended action differs from the requested one,
\* and by nothing else.
C13_OverrideNote ==
    /\ Classified => cls.result.reason = ExpectedReason(cls.formData, cls.result.recommendedAction)
    /\ cls.pc = "out2" =>
         cls.result2.reason = ExpectedReason(cls.formData2, cls.result2.recommendedAction)

\* the requested action is the recommended one for the first call and is
\* overridden in the second
C13_Witness ==
    /\ cls.pc = "out2"
    /\ cls.formData.issueType = OptPanIssue
    /\ cls.formData.subIssue = SubMappingError
    /\ cls.formData.actionRequested = ActResolveMapping
    /\ cls.result.recommendedAction = ActResolveMapping
    /\ cls.result.reason = ReasonPan
    /\ cls.result2.reason = ReasonPan \o OverrideNote(cls.formData2.actionRequested)

\* C14: with the keyword Pan Issue the action is Reject Lead exactly when
\* the sub issue is 'Primary PAN Available' or the notes contain 'primary' in
\* any letter case, and Resolve Mapping otherwise; the fixed reason and the
\* two steps are the same in both cases.
C14_PanIssue ==
    Classified /\ Includes(cls.formData.issueType, KwPanIssue) =>
        /\ cls.result.recommendedAction =
             IF cls.formData.subIssue = SubPrimaryPAN \/ NotesHave(cls.formData, WordPrimary)
             THEN ActRejectLead
             ELSE ActResolveMapping
        /\ cls.result.reason \in
             {ReasonPan, ReasonPan \o OverrideNote(cls.formData.actionRequested)}
        /\ cls.result.nextSteps = <<StepRelogin, StepCheckMapping>>

\* 'PRIMARY' in the notes of a Pan Issue with another sub issue
C14_Witness ==
    /\ cls.pc = "out"
    /\ cls.formData.issueType = OptPanIssue
    /\ cls.formData.subIssue = SubMappingError
    /\ cls.formData.notes = NotesPrimary
    /\ cls.result.recommendedAction = ActRejectLead
    /\ cls.result.nextSteps = <<StepRelogin, StepCheckMapping>>

\* C15: with the keyword System Issue UI and no keyword of an earlier row
\* the action is No Action exactly when the notes contain 'resolved' in any
\* letter case, and Reject Lead otherwise; the fixed reason and the two steps
\* are the same in both cases.
C15_SystemIssueUI ==
    /\ Classified
    /\ Includes(cls.formData.issueType, KwSystemIssueUI)
    /\ ~Includes(cls.formData.issueType, KwPanIssue)
    /\ ~Includes(cls.formData.issueType, KwSwapping)
    /\ ~Includes(cls.formData.issueType, KwWrongDetails)
    => /\ cls.result.recommendedAction =
            IF NotesHave(cls.formData, WordResolved) THEN ActNoAction ELSE ActRejectLead
       /\ cls.result.reason \in
            {ReasonSystemIssueUI,
             ReasonSystemIssueUI \o OverrideNote(cls.formData.actionRequested)}
       /\ cls.result.nextSteps = <<StepClearCache, StepEscalateTech>>

\* 'Resolved' with a capital in the notes of a System Issue UI
C15_Witness ==
    /\ cls.pc = "out"
    /\ cls.formData.issueType = OptSystemIssueUI
    /\ cls.formData.notes = NotesAll
    /\ cls.result.recommendedAction = ActNoAction
    /\ cls.result.nextSteps = <<StepClearCache, StepEscalateTech>>

\* C16: with the keyword Wrong Details Updated by SM and no keyword of an
\* earlier row the action is Reopen Task; the steps are the income step then
\* the reopen step when the notes contain 'income' in any letter case, and
\* the reopen step alone otherwise, whatever the sub issue.
C16_WrongDetails ==
    /\ Classified
    /\ Includes(cls.formData.issueType, KwWrongDetails)
    /\ ~Includes(cls.formData.issueType, KwPanIssue)
    /\ ~Includes(cls.formData.issueType, KwSwapping)
    => /\ cls.result.recommendedAction = ActReopenTask
       /\ cls.result.nextSteps =
            IF NotesHave(cls.formData, WordIncome)
            THEN <<StepChangeIncome, StepReopenTask>>
            ELSE <<StepReopenTask>>

\* 'Income' with a capital in the notes: the income step, then the reopen step
C16_Witness ==
    /\ cls.pc = "out"
    /\ cls.formData.issueType = OptWrongDetails
    /\ cls.formData.subIssue = SubMappingError
    /\ cls.formData.notes = NotesIncome
    /\ cls.result.nextSteps = <<StepChangeIncome, StepReopenTask>>

\* C17: the result is that of the earliest row of the table whose keyword
\* occurs in the issue type, wherever the keywords stand in the text: its
\* action, its fixed reason, and steps of that row only.
C17_FirstRowWins ==
    Classified =>
        LET row == TableRows[Row(cls.formData.issueType)] IN
            /\ cls.result.recommendedAction \in row.actions
            /\ cls.result.reason \in
                 {row.reason, row.reason \o OverrideNote(cls.formData.actionRequested)}
            /\ cls.result.nextSteps \in row.steps

\* 'Swapping Pan Issue': the later keyword belongs to the earlier row
C17_Witness ==
    /\ cls.pc = "out"
    /\ cls.formData.issueType = KwSwapping \o <<" ">> \o KwPanIssue
    /\ cls.formData.subIssue = Undefined
    /\ cls.formData.notes = Undefined
    /\ cls.result.recommendedAction = ActResolveMapping
    /\ cls.result.nextSteps = <<StepRelogin, StepCheckMapping>>

\* C18: the requested action does not influence the recommendation: the
\* same form classified with another requested action gives the same
\* recommended action and the same steps.
C18_RequestIgnored ==
    cls.pc = "out2" =>
        /\ cls.formData2 = [cls.formData EXCEPT !.actionRequested = cls.formData2.actionRequested]
        /\ cls.formData2.actionRequested # cls.formData.actionRequested
        /\ cls.result2.recommendedAction = cls.result.recommendedAction
        /\ cls.result2.nextSteps = cls.result.nextSteps

\* the second request is the recommended action, the first was not: the
\* reasons differ by the override note, the rest is the same
C18_Witness ==
    /\ cls.pc = "out2"
    /\ cls.formData.issueType = OptLinkExpired
    /\ cls.formData.actionRequested = ActReopenTask
    /\ cls.formData2.actionRequested = ActGenerateNewLink
    /\ cls.result.reason # cls.result2.reason
    /\ cls.result2.reason = ReasonLinkExpired
    /\ cls.result.recommendedAction = ActGenerateNewLink
    /\ cls.result2.recommendedAction = ActGenerateNewLink

\* the earliest row matching the issue type is row i of the table
OnlyRow(i) == Classified /\ Row(cls.formData.issueType) = i

\* C19: the rows without condition give their action and steps whatever the
\* sub issue and the notes: Swapping, Link Expired, Relogin Request or Old
\* Case, Not Interested, BT/Topup Case Error.
C19_UnconditionalRows ==
    /\ OnlyRow(2) =>
         /\ cls.result.recommendedAction = ActRejectLead
         /\ cls.result.nextSteps = <<StepAddEntity, StepUpdateOpportunity>>
    /\ OnlyRow(5) =>
         /\ cls.result.recommendedAction = ActGenerateNewLink
         /\ cls.result.nextSteps = <<StepRegenerateLink>>
    /\ OnlyRow(6) =>
         /\ cls.result.recommendedAction = ActRejectLead
         /\ cls.result.nextSteps = <<StepPullCibil>>
    /\ OnlyRow(7) =>
         /\ cls.result.recommendedAction = ActRejectLead
         /\ cls.result.nextSteps = <<StepMarkClosed>>
    /\ OnlyRow(8) =>
         /\ cls.result.recommendedAction = ActReopenTask
         /\ cls.result.nextSteps = <<StepUpdateLoanType>>

\* an Old Case whose sub issue and notes would decide in other rows
C19_Witness ==
    /\ cls.pc = "out"
    /\ cls.formData.issueType = OptOldCase
    /\ cls.formData.subIssue = SubPrimaryPAN
    /\ cls.formData.notes = NotesAll
    /\ cls.result.recommendedAction = ActRejectLead
    /\ cls.result.nextSteps = <<StepPullCibil>>

\* C20: calls with the same form data return the same recommendedAction,
\* the same reason and arrays of the same steps whatever was classified in
\* between; the nextSteps arrays of two calls are two arrays; and a call
\* leaves the objects returned by the earlier calls and the contents of
\* their arrays as they were.
C20_Deterministic ==
    [][LET Steps(c, i) == c.heap[c.log[i].result.nextSteps] IN
       /\ \A i, j \in DOMAIN cls'.log :
            cls'.log[i].formData = cls'.log[j].formData =>
                /\ cls'.log[i].result.recommendedAction = cls'.log[j].result.recommendedAction
                /\ cls'.log[i].result.reason = cls'.log[j].result.reason
                /\ Steps(cls', i) = Steps(cls', j)
       /\ \A i, j \in DOMAIN cls'.log :
            i # j => cls'.log[i].result.nextSteps # cls'.log[j].result.nextSteps
       /\ \A i \in DOMAIN cls.log :
            /\ cls'.log[i] = cls.log[i]
            /\ Steps(cls', i) = Steps(cls, i)]_vars

\* the same form classified before and after another one with other
\* steps: two arrays of the same two steps
C20_Witness ==
    /\ Len(cls.log) = 3
    /\ cls.log[1].formData = cls.log[3].formData
    /\ cls.log[2].formData # cls.log[1].formData
    /\ cls.heap[cls.log[2].result.nextSteps] # cls.heap[cls.log[1].result.nextSteps]
    /\ cls.heap[cls.log[1].result.nextSteps] = <<StepChangeIncome, StepReopenTask>>
    /\ cls.log[3].result.nextSteps # cls.log[1].result.nextSteps
    /\ cls.heap[cls.log[3].result.nextSteps] = cls.heap[cls.log[1].result.nextSteps]
    /\ cls.log[3].result.reason = cls.log[1].result.reason

\* C21: a form with sub issue or notes missing gives the same result as
\* the same form with '' in their place.
C21_MissingAsEmpty ==
    cls.pc = "outEmptied" =>
        /\ cls.formData2 = Emptied(cls.formData)
        /\ cls.result2 = cls.result

\* a Pan Issue whose sub issue and notes are both missing
C21_Witness ==
    /\ cls.pc = "outEmptied"
    /\ cls.formData.issueType = OptPanIssue
    /\ cls.formData.subIssue = Undefined /\ cls.formData.notes = Undefined
    /\ cls.formData2.subIssue = << >> /\ cls.formData2.notes = << >>
    /\ cls.result2 = cls.result
    /\ cls.result.recommendedAction = ActResolveMapping

\* the form data a stored document was built from
StoredForm(d) ==
    [issueType |-> d.issueType, subIssue |-> d.subIssue, notes |-> d.detailedActionable,
     actionRequested |-> d.actionRequested]

\* the decision a stored document carries
StoredDecision(d) ==
    [recommendedAction |-> d.recommendedAction, reason |-> d.reason,
     nextSteps |-> d.nextSteps]

InFlight == {k \in DOMAIN page.calls : page.calls[k].pc \in Awaiting}

\* C22: a submit call holds the decision for its copy of the form data
\* before it holds an id and before its document is written; the decision
\* of every stored document is the decision tree's result for the form data
\* stored with it, and the success screen shows the decision stored under
\* the id it shows.
C22_ClassifiedThenStored ==
    /\ \A k \in InFlight :
          /\ page.calls[k].decisionResult
                = ProcessLoanIssueDecisionTree(page.calls[k].submissionData)
          /\ page.calls[k].pc = "allocate" => page.calls[k].submissionId = NoId
          /\ \A d \in submissions : d.id # page.calls[k].submissionId
    /\ \A d \in submissions : StoredDecision(d) = ProcessLoanIssueDecisionTree(StoredForm(d))
    /\ page.success # NoSuccess =>
          \E d \in submissions :
              /\ d.id = page.success.submissionId
              /\ StoredDecision(d) = page.success.decisionResult

\* the issue type was changed while the call was in flight: the success
\* screen shows the decision for the form as submitted
C22_Witness ==
    /\ page.success # NoSuccess
    /\ \E d \in submissions :
          /\ d.id = page.success.submissionId
          /\ d.issueType = OptSwapping
          /\ page.formData.issueType = OptNotInterested
          /\ page.success.decisionResult.recommendedAction = d.recommendedAction
          /\ ProcessLoanIssueDecisionTree(page.formData) # page.success.decisionResult

\* C25: at most one submit attempt is in flight, isSubmitting is set
\* exactly while one is, and every attempt allocates at most one id and
\* writes at most one document: the counter has advanced once for each
\* attempt that got an id and the collection holds one document for each
\* attempt that finished.
C25_OneAttemptInFlight ==
    /\ Cardinality(InFlight) <= 1
    /\ page.isSubmitting <=> InFlight # {}
    /\ \A k \in DOMAIN page.calls :
          page.calls[k].allocs <= 1 /\ page.calls[k].writes <= page.calls[k].allocs
    /\ CurrentValue(counter) = Cardinality({k \in DOMAIN page.calls : page.calls[k].allocs = 1})
    /\ Cardinality(submissions)
          = Cardinality({k \in DOMAIN page.calls : page.calls[k].writes = 1})

\* an attempt is in flight on a form that is shown and valid, and another
\* attempt is within the bound: only the disabled button holds it back
C25_Witness ==
    /\ page.isSubmitting
    /\ InFlight = {1}
    /\ page.calls[1].pc = "setDoc"
    /\ FormShown /\ Valid
    /\ Len(page.calls) < MaxSubmits

\* the sub issue is '' or one of those SUB_ISSUES_MAP defines for the type
SubIssueOfType(issueType, subIssue) ==
    \/ subIssue = << >>
    \/ \E i \in DOMAIN SUB_ISSUES_MAP(issueType) : SUB_ISSUES_MAP(issueType)[i] = subIssue

\* C26: the sub issue of every form handed to createLoanIssueSubmission
\* and of every stored document is '' or a sub issue of its issue type.
C26_SubIssueOfType ==
    /\ \A k \in InFlight :
          SubIssueOfType(page.calls[k].submissionData.issueType,
                         page.calls[k].submissionData.subIssue)
    /\ \A d \in submissions : SubIssueOfType(d.issueType, d.subIssue)

\* the state keeps the sub issue chosen under Pan Issue after the issue
\* type was changed to Wrong Details: the validations of handleSubmit
\* would pass, the select displays 'Choose an option' and holds the submit
\* back; an earlier attempt of this form has failed
C26_Witness ==
    /\ page.formData.issueType = OptWrongDetails
    /\ page.formData.subIssue = SubPrimaryPAN
    /\ FormShown /\ SubmitEnabled /\ Valid
    /\ ~ConstraintsSatisfied
    /\ Len(page.calls) = 1
    /\ page.calls[1].pc = "failed"

Attached(p) == {p.formData.attachmentFiles[i] : i \in DOMAIN p.formData.attachmentFiles}

\* C28: every file attached before a paste is attached after it.
C28_PasteKeepsAttachments ==
    [][(\E size \in FileSizes : HandlePaste(size)) => Attached(page) \subseteq Attached(page')]_vars

\* C23: once the provider has been mounted, a role of UserRole that a
\* successful login has stored and no logout has removed is the role of
\* the authenticated user.
C23_PersistsUntilLogout ==
    (~auth.loading /\ auth.storage \in UserRole) =>
        (auth.isAuthenticated /\ auth.role = auth.storage)

\* C24: a protected page is shown only to an authenticated user whose
\* role is among the allowed roles of its route.
C24_ProtectedPages ==
    (~auth.loading /\ auth.location # "/login") =>
        /\ auth.isAuthenticated
        /\ auth.role \in AllowedRoles(auth.location)

\* the submissions list is shown to product support after a reload, and
\* the submit page would send this user to the login page
C24_Witness ==
    /\ ~auth.loading
    /\ auth.location = "/submissions"
    /\ auth.reloads > 0 /\ auth.result = "none"
    /\ auth.role = "product_support"
    /\ ProtectedRoute(auth, AllowedRoles("/submit")) = "/login"

\* C27: no two folders have the same name and the same parent, and the
\* files of one submission are in one folder.
C27_NoDuplicateFolders ==
    /\ \A f, g \in drive.folders : (f.name = g.name /\ f.parent = g.parent) => f = g
    /\ \A f, g \in drive.files : f.submissionId = g.submissionId => f.parent = g.parent

\* C29: the call returns or throws, the offset never decreases and never
\* exceeds the size of the file, every PUT carries a range of at most
\* CHUNK_SIZE inside the file, a 200 or 201 ends the loop and returns once
\* the body of the response is read, and every status other than 200, 201
\* and 308 throws.
C29_UploadTerminates ==
    /\ [][/\ upload'.uploadedBytes >= upload.uploadedBytes
          /\ upload'.uploadedBytes <= upload'.size
          /\ upload'.pc = "put" =>
                /\ 0 <= upload'.uploadedBytes
                /\ upload'.uploadedBytes < upload'.chunkEnd
                /\ upload'.chunkEnd - upload'.uploadedBytes <= CHUNK_SIZE
                /\ upload'.chunkEnd <= upload'.size
          /\ (upload.pc = "put" /\ upload'.status \in {200, 201}) => upload'.pc = "json"
          /\ (upload.pc = "json" /\ upload'.pc # "thrown") =>
                upload'.pc = "returned" /\ upload'.loaded = upload'.size
          /\ (upload.pc = "put" /\ upload'.status \notin {200, 201, 308})
                => upload'.pc = "thrown"]_vars
    /\ <>(upload.pc \in {"returned", "thrown"})

\* the keywords that occur in an issue type
KeywordsIn(issueType) == {k \in Keywords : Includes(issueType, k)}

\* the issue type is one of the options of the form
FromForm(issueType) == \E i \in DOMAIN ISSUE_TYPE_OPTIONS : issueType = ISSUE_TYPE_OPTIONS[i]

\* the row found when the rows are tested from the last keyword row to the
\* first, the catch-all when none matches
LastRow(issueType) ==
    CHOOSE i \in DOMAIN TableRows :
        /\ RowMatches(i, issueType)
        /\ \/ i = Len(TableRows) /\ \A j \in 1..(i - 1) : ~RowMatches(j, issueType)
           \/ i < Len(TableRows) /\ \A j \in (i + 1)..(Len(TableRows) - 1) :
                                        ~RowMatches(j, issueType)

\* C30: an option of the form contains one keyword and no other, or none
\* when it is the Other option, so the rows tested in the opposite order
\* give the same row, and the result is the one of that row.
C30_OptionsExclusive ==
    (Classified /\ FromForm(cls.formData.issueType)) =>
        LET issueType == cls.formData.issueType IN
        /\ Cardinality(KeywordsIn(issueType)) <= 1
        /\ KeywordsIn(issueType) = {} <=> issueType = OptOther
        /\ LastRow(issueType) = Row(issueType)
        /\ cls.result.recommendedAction \in TableRows[LastRow(issueType)].actions
        /\ cls.result.nextSteps \in TableRows[LastRow(issueType)].steps

\* the Old Case option: its example speaks of a re-login and still holds
\* the keyword of its own row alone
C30_Witness ==
    /\ Classified
    /\ cls.formData.issueType = OptOldCase
    /\ KeywordsIn(cls.formData.issueType) = {KwOldCase}
    /\ LastRow(cls.formData.issueType) = 6
    /\ cls.result.nextSteps = <<StepPullCibil>>

====
